---- MODULE Spec2Model ----
(***************************************************************************)
(* State-machine model of the consciousness subsystem:                     *)
(*   - GlobalWorkspaceSystem      (server/consciousness/global_workspace)  *)
(*   - TemporalConsciousnessSystem (.../temporal_consciousness)            *)
(*   - ConsciousnessCore          (.../consciousness_core)                 *)
(*   - ConsciousnessManager       (.../consciousness_manager)              *)
(*                                                                         *)
(* Scores (priority, coherence, connection strength, significance) are     *)
(* fixed-point numbers in thousandths: 800 stands for 0.8.                 *)
(* Wall-clock time is counted in ticks of 1/TicksPerMs millisecond; every  *)
(* read of the clock is strictly later than the previous one.              *)
(*                                                                         *)
(* The specifications share the component operators:                       *)
(*   Spec            a GlobalWorkspaceSystem driven by add_content calls   *)
(*   SpecCore        a ConsciousnessCore with its two stores               *)
(*   SpecManager     a ConsciousnessManager with its two stores            *)
(*   SpecPure        the scoring helpers of the workspace on their own     *)
(*   SpecAnyPriority a GlobalWorkspaceSystem given priorities of any value *)
(*   SpecThreads     a GlobalWorkspaceSystem called from several threads   *)
(*   SpecMonitor     a ConsciousnessCore and its monitoring thread, the    *)
(*                   thread taken statement by statement                   *)
(*   SpecQueries     a GlobalWorkspaceSystem admitted to and read back     *)
(*   SpecTemporalPure the methods of TemporalEvent on their own            *)
(*   SpecTemporal    a TemporalConsciousnessSystem recorded to and read    *)
(*   SpecCallers     a ConsciousnessCore called from several threads       *)
(*   SpecInitialize  a ConsciousnessCore whose modules can fail to start   *)
(***************************************************************************)
EXTENDS Integers, Sequences, FiniteSets, TLC

VARIABLES
    \* GlobalWorkspaceSystem
    workspace_contents,  \* content_id -> WorkspaceContent
    attention_focus,     \* ordered list of content_ids
    module_connections,  \* module_id -> connection strength
    ws_initialized,      \* GlobalWorkspaceSystem.initialized
    consciousness_metrics, \* GlobalWorkspaceSystem.consciousness_metrics
    \* TemporalConsciousnessSystem
    temporal_events,     \* event_id -> TemporalEvent
    events_processed,    \* temporal_metrics['events_processed']
    tc_initialized,      \* TemporalConsciousnessSystem.initialized
    \* ConsciousnessCore
    system_status,       \* 'inactive' | 'active' | 'paused' | 'error' | 'emergency_stop'
    core_initialized,    \* ConsciousnessCore.initialized
    module_statuses,     \* module name -> ModuleStatus.status
    monitoring_enabled,  \* ConsciousnessCore.monitoring_enabled
    monitoring_thread,   \* ConsciousnessCore.monitoring_thread: "none" | "alive" | "dead"
    mon_pc,              \* where the monitoring thread stands in _monitoring_loop
    system_metrics,      \* ConsciousnessCore.system_metrics: modules_online, total_modules
    module_initialized,  \* module name -> the module's own initialized flag
    \* ConsciousnessManager
    processing_enabled,  \* ConsciousnessManager.processing_enabled
    mgr_initialized,     \* ConsciousnessManager.initialized
    integration_thread,  \* ConsciousnessManager.integration_thread: "none" | "alive" | "dead"
    \* environment and observation
    clock,               \* last reading of time.time(), in ticks
    op,                  \* last ConsciousnessCore / ConsciousnessManager call that returned
    result,              \* what that call returned
    calls,               \* number of clock-reading calls made since the initial state
    admissions,          \* history: one entry per add_content call, in call order
    stop_pending,        \* history: emergency_stop ran and initialize has not run since
    \* threads inside GlobalWorkspaceSystem
    producers,           \* producer thread -> its position and locals in add_content
    observed,            \* what the last reader of the workspace saw
    \* threads inside ConsciousnessCore
    callers,             \* calling thread -> its position in initialize / resume_system
    orphaned,            \* running monitoring threads self.monitoring_thread no longer
                         \* refers to: where each stands in _monitoring_loop
    \* the pure helpers of GlobalWorkspaceSystem called on their own
    applied              \* the last two applications, the most recent last

wsVars   == <<workspace_contents, attention_focus, module_connections, ws_initialized,
             consciousness_metrics>>
tcVars   == <<temporal_events, events_processed, tc_initialized>>
coreVars == <<system_status, core_initialized, module_statuses, monitoring_enabled,
             monitoring_thread, mon_pc, system_metrics, module_initialized>>
mgrVars  == <<processing_enabled, mgr_initialized, integration_thread>>
obsVars  == <<clock, op, result, calls, admissions, stop_pending>>
thrVars  == <<producers, observed, callers, orphaned>>
fnVars   == <<applied>>
vars     == <<wsVars, tcVars, coreVars, mgrVars, obsVars, thrVars, fnVars>>

-----------------------------------------------------------------------------
(* Bounds of the model *)

\* add_content calls explored after the initial state of Spec
MaxAdmit == 3
\* clock ticks per millisecond (resolution of time.time() below 1 ms)
TicksPerMs == 2

(* Program constants *)

\* global_workspace.py:212  "if len(self.attention_focus) > 50"
FocusCap == 50

\* global_workspace.py:149-159
ConfiguredModules ==
    {"temporal_consciousness", "social_cognition", "creative_intelligence",
     "value_learning", "virtue_learning", "embodied_cognition",
     "intrinsic_motivation", "autonomous_goals", "recursive_self_improvement"}

\* AttentionLevel (global_workspace.py:15-20)
AttentionLevel == {"background", "peripheral", "focused", "conscious"}

(* Inputs of add_content drawn by the model *)
Sources    == {"temporal_consciousness", "external"}
KeyCounts  == {1, 10}              \* len(data)
Priorities == {750, 900}

Min(a, b) == IF a <= b THEN a ELSE b

EmptyMap == [x \in {} |-> 0]

\* the value of `result` before any call has returned
NoResult == [none |-> TRUE]

-----------------------------------------------------------------------------
(* GlobalWorkspaceSystem: pure parts *)

\* int(time.time() * 1000): the millisecond the reading t falls in.  The id
\* string f"content_{ms}" is an injective rendering of that integer, so the
\* integer stands for the id.
MsOf(t) == t \div TicksPerMs

\* _initialize_module_connections
InitialModuleConnections == [m \in ConfiguredModules |-> 800]

\* lines 167-170 with 0.8 in place of the default 0.5 of line 168
CalculateCoherence_DefaultAsConfigured(nkeys, source_module, conns) ==
    LET data_richness   == Min(1000, (nkeys * 1000) \div 10)
        module_strength == IF source_module \in DOMAIN conns
                           THEN conns[source_module] ELSE 800
    IN  (data_richness + module_strength) \div 2

\* _calculate_coherence(data, source_module), len(data) = nkeys
CalculateCoherence(nkeys, source_module, conns) ==
    LET data_richness   == Min(1000, (nkeys * 1000) \div 10)
        module_strength == IF source_module \in DOMAIN conns
                           THEN conns[source_module] ELSE 500
    IN  (data_richness + module_strength) \div 2

\* Scores of 0.05-spaced decimals whose double-precision sum is not the double
\* of the decimal sum but the next one above it, where that decides a
\* comparison of line 176-180: 0.4 + 0.8 is 1.2000000000000002 and its half
\* 0.6000000000000001 > 0.6.  For every other pair of multiples of 0.05 with
\* priority in [-0.5, 1.5] and coherence in [0, 1] the comparisons come out
\* as for the decimal sum.
RoundedUp == {<<400, 800>>, <<800, 400>>, <<550, 650>>, <<650, 550>>, <<1100, 100>>}

\* line 174: combined_score = (priority + coherence_score) / 2.0, in units of
\* 1/4000; an odd value stands for the double just above the even one below
CombinedScore(priority, coherence_score) ==
    2 * (priority + coherence_score)
        + (IF <<priority, coherence_score>> \in RoundedUp THEN 1 ELSE 0)

\* a score literal of the source (thousandths) in the units of CombinedScore
Literal(x) == 4 * x

\* lines 176-183 with the comparisons made inclusive
DetermineAttentionLevel_Inclusive(priority, coherence_score) ==
    LET combined_score == CombinedScore(priority, coherence_score)
    IN  IF combined_score >= Literal(800) THEN "conscious"
        ELSE IF combined_score >= Literal(600) THEN "focused"
        ELSE IF combined_score >= Literal(400) THEN "peripheral"
        ELSE "background"

\* lines 176-183 with the two middle levels exchanged
DetermineAttentionLevel_Swapped(priority, coherence_score) ==
    LET combined_score == CombinedScore(priority, coherence_score)
    IN  IF combined_score > Literal(800) THEN "conscious"
        ELSE IF combined_score > Literal(600) THEN "peripheral"
        ELSE IF combined_score > Literal(400) THEN "focused"
        ELSE "background"

\* _determine_attention_level: the combined score is compared strictly
\* against 0.8, 0.6 and 0.4
DetermineAttentionLevel(priority, coherence_score) ==
    LET combined_score == CombinedScore(priority, coherence_score)
    IN  IF combined_score > Literal(800) THEN "conscious"
        ELSE IF combined_score > Literal(600) THEN "focused"
        ELSE IF combined_score > Literal(400) THEN "peripheral"
        ELSE "background"

\* a list.remove(x) that leaves the list as it is
RemoveFirst_Nothing(s, x) == s

\* list.remove(x): drops the first occurrence of x
RemoveFirst(s, x) ==
    IF \E i \in 1..Len(s) : s[i] = x
    THEN LET k == CHOOSE i \in 1..Len(s) :
                      s[i] = x /\ \A j \in 1..(i-1) : s[j] # x
         IN  SubSeq(s, 1, k-1) \o SubSeq(s, k+1, Len(s))
    ELSE s

\* list.insert(i, x) with Python's 0-based i: x ends up at 1-based position i+1
InsertAt(s, pos, x) == SubSeq(s, 1, pos-1) \o <<x>> \o SubSeq(s, pos, Len(s))

\* lines 211-213, without the cap
TruncateFocus_NoCap(focus) == focus

\* lines 211-213, keeping the last 50 entries instead of the first
TruncateFocus_KeepLast(focus) ==
    IF Len(focus) > FocusCap
    THEN SubSeq(focus, Len(focus) - FocusCap + 1, Len(focus))
    ELSE focus

\* lines 211-213: keep the first 50 entries
TruncateFocus(focus) ==
    IF Len(focus) > FocusCap THEN SubSeq(focus, 1, FocusCap) ELSE focus

\* lines 191-209 of _update_attention_focus: the id is removed from the list
\* and inserted at the head (Conscious) or before the first entry of lower
\* priority, else appended
PlaceInFocus(contents, focus, content_id) ==
    LET content == contents[content_id]
        f1 == RemoveFirst(focus, content_id)
        Before(i) == /\ f1[i] \in DOMAIN contents
                     /\ content.priority > contents[f1[i]].priority
        f2 == IF content.attention_level = "conscious"
              THEN InsertAt(f1, 1, content_id)
              ELSE IF \E i \in 1..Len(f1) : Before(i)
                   THEN LET k == CHOOSE i \in 1..Len(f1) :
                                     Before(i) /\ \A j \in 1..(i-1) : ~Before(j)
                        IN  InsertAt(f1, k, content_id)
                   ELSE Append(f1, content_id)
    IN  f2

\* _update_attention_focus(content_id) on the map `contents` (which already
\* holds content_id) and the list `focus`; yields the new list
UpdateAttentionFocus(contents, focus, content_id) ==
    IF content_id \notin DOMAIN contents THEN focus
    ELSE TruncateFocus(PlaceInFocus(contents, focus, content_id))

\* lines 73-90 with the level taken from the priority alone
NewContent_LevelFromPriority(t, source_module, content_type, nkeys, priority, conns) ==
    [content_id      |-> MsOf(t),
     source_module   |-> source_module,
     content_type    |-> content_type,
     nkeys           |-> nkeys,
     attention_level |-> DetermineAttentionLevel(priority, priority),
     timestamp       |-> t,
     priority        |-> priority,
     coherence_score |-> CalculateCoherence(nkeys, source_module, conns)]

\* The WorkspaceContent built by add_content (lines 73-90) from a clock
\* reading t.  datetime.now() on line 87 is taken in the same tick as
\* time.time() on line 73.
NewContent(t, source_module, content_type, nkeys, priority, conns) ==
    LET coherence_score == CalculateCoherence(nkeys, source_module, conns)
    IN  [content_id      |-> MsOf(t),
         source_module   |-> source_module,
         content_type    |-> content_type,
         nkeys           |-> nkeys,
         attention_level |-> DetermineAttentionLevel(priority, coherence_score),
         timestamp       |-> t,
         priority        |-> priority,
         coherence_score |-> coherence_score]

\* dict item assignment d[k] = v
Put(map, k, v) == [x \in DOMAIN map \cup {k} |-> IF x = k THEN v ELSE map[x]]

\* add_content on a workspace value w = [contents, focus, log]; yields the
\* workspace after the call (lines 92-95) with the call appended to the log
AddContentTo(w, t, source_module, content_type, nkeys, priority, conns) ==
    LET content  == NewContent(t, source_module, content_type, nkeys, priority, conns)
        contents == Put(w.contents, content.content_id, content)
    IN  [contents |-> contents,
         focus    |-> UpdateAttentionFocus(contents, w.focus, content.content_id),
         log      |-> Append(w.log, [id       |-> content.content_id,
                                     level    |-> content.attention_level,
                                     priority |-> content.priority])]

EmptyWorkspace == [contents |-> EmptyMap, focus |-> <<>>, log |-> <<>>]

\* get_workspace_state: how many ids of the ordering it returns (line 141)
FocusShown == 10

\* get_workspace_state: 'total_contents' (line 143)
TotalContents(contents) == Cardinality(DOMAIN contents)

\* get_workspace_state: the ids listed under 'contents_by_attention'[level]
\* (lines 122-136)
ContentsByAttention(contents, level) ==
    {id \in DOMAIN contents : contents[id].attention_level = level}

\* The keys of workspace_contents in the order in which the dict yields them:
\* the order in which each key was first stored (line 92), read off the calls
\* in log; storing under a key that is present keeps the key's place.  The
\* ids are the milliseconds of a clock that does not go back, so the stores
\* under one key are consecutive entries of log
DictKeys(log) ==
    LET first_stores == SelectSeq([i \in 1..Len(log) |-> i],
                                  LAMBDA i : i = 1 \/ log[i - 1].id # log[i].id)
    IN  [k \in 1..Len(first_stores) |-> log[first_stores[k]].id]

\* every stored item, whatever its level
ValuesAt_AnyLevel(contents, keys, level) ==
    SelectSeq(keys, LAMBDA id : id \in DOMAIN contents)

\* the items of contents whose key is in keys and whose level is level, as
\* the comprehensions of lines 109-112 and 132-133 list them
ValuesAt(contents, keys, level) ==
    SelectSeq(keys, LAMBDA id : id \in DOMAIN contents
                                /\ contents[id].attention_level = level)

\* the Conscious items, the one stored last listed first
GetConsciousContentsOf_NewestFirst(contents, keys) ==
    LET listed == ValuesAt(contents, keys, "conscious")
    IN  [i \in 1..Len(listed) |-> listed[Len(listed) + 1 - i]]

\* get_conscious_contents (lines 107-112)
GetConsciousContentsOf(contents, keys) == ValuesAt(contents, keys, "conscious")

\* attention_focus after a slice of it has been taken in place of a copy
FocusAfterSlice_InPlace(focus) == SubSeq(focus, 1, Min(FocusShown, Len(focus)))

\* attention_focus after get_workspace_state has taken attention_focus[:10]
\* (line 141): the slice is a new list
FocusAfterSlice(focus) == focus

\* A quotient of two integers, kept exact
Quotient(num, den) == [num |-> num, den |-> den]

\* min(1.0, num / den) for den > 0
MinOne(num, den) == Quotient(Min(num, den), den)

\* the metrics as __init__ sets them (lines 45-50) without
\* attention_stability, which is read off the wall clock and enters no other
\* value
InitialMetrics ==
    [coherence_level   |-> Quotient(0, 1),
     integration_depth |-> Quotient(0, 1),
     content_richness  |-> Quotient(0, 1)]

\* sum(c.coherence_score for c in the items named by ids) (line 230)
RECURSIVE SumCoherence(_, _)
SumCoherence(contents, ids) ==
    IF ids = <<>> THEN 0
    ELSE contents[Head(ids)].coherence_score + SumCoherence(contents, Tail(ids))

\* _update_consciousness_metrics (lines 220-249) on the metrics m
UpdateConsciousnessMetrics(m, contents, keys) ==
    IF DOMAIN contents = {} THEN m
    ELSE LET conscious_contents == GetConsciousContentsOf(contents, keys)
             unique_modules ==
                 {contents[conscious_contents[i]].source_module :
                      i \in 1..Len(conscious_contents)}
             content_types == {contents[id].content_type : id \in DOMAIN contents}
         IN  [coherence_level   |->
                  IF conscious_contents # <<>>
                  THEN Quotient(SumCoherence(contents, conscious_contents),
                                Len(conscious_contents))
                  ELSE m.coherence_level,
              integration_depth |-> MinOne(Cardinality(unique_modules), 10),
              content_richness  |-> MinOne(Cardinality(content_types), 15)]

\* the dict get_workspace_state returns (lines 116-145), computed after
\* _update_consciousness_metrics has left the metrics m
WorkspaceState(initialized, m, contents, keys, focus) ==
    IF ~initialized
    THEN [error |-> "Global workspace system not initialized"]
    ELSE [consciousness_metrics |-> m,
          contents_by_attention |->
              [level \in AttentionLevel |-> ValuesAt(contents, keys, level)],
          attention_focus       |-> SubSeq(focus, 1, Min(FocusShown, Len(focus))),
          total_contents        |-> TotalContents(contents)]

\* The workspace after n add_content calls, one per millisecond, each from an
\* unconfigured producer with a one-key payload and priority 0.5
RECURSIVE Prefilled(_)
Prefilled(n) ==
    IF n = 0 THEN EmptyWorkspace
    ELSE AddContentTo(Prefilled(n-1), n * TicksPerMs, "external", "experience",
                      1, 500, EmptyMap)

-----------------------------------------------------------------------------
(* TemporalConsciousnessSystem: pure parts *)

\* an experience_data dict without a 'temporal_scale' key
NoScale == "absent"

\* _determine_temporal_scale(experience_data)
DetermineTemporalScale(event_type, given_scale) ==
    IF given_scale # NoScale THEN given_scale
    ELSE IF event_type \in {"initialization", "identity_formation"} THEN "existential"
    ELSE IF event_type \in {"learning", "goal_formation"} THEN "long_term"
    ELSE IF event_type \in {"interaction", "decision"} THEN "medium_term"
    ELSE "short_term"

\* a record whose event starts at half strength
RecordTemporalTo_HalfStrength(s, t, event_type, given_scale, significance) ==
    LET event == [event_id        |-> MsOf(t),
                  timestamp       |-> t,
                  event_type      |-> event_type,
                  significance    |-> significance,
                  memory_strength |-> 500,
                  temporal_scale  |-> DetermineTemporalScale(event_type, given_scale)]
    IN  [events    |-> Put(s.events, event.event_id, event),
         processed |-> s.processed + 1]

\* process_temporal_experience(experience_data, significance) read at clock
\* reading t, on a store s = [events, processed]; yields the store after the
\* call (lines 140-161).  datetime.now() on line 148 is taken in the same
\* tick as time.time() on line 140.
RecordTemporalTo(s, t, event_type, given_scale, significance) ==
    LET event == [event_id        |-> MsOf(t),
                  timestamp       |-> t,
                  event_type      |-> event_type,
                  significance    |-> significance,
                  memory_strength |-> 1000,
                  temporal_scale  |-> DetermineTemporalScale(event_type, given_scale)]
    IN  [events    |-> Put(s.events, event.event_id, event),
         processed |-> s.processed + 1]

\* _create_foundational_events: three process_temporal_experience calls at
\* the readings t1 < t2 < t3
CreateFoundationalEvents(s, t1, t2, t3) ==
    LET s1 == RecordTemporalTo(s,  t1, "initialization", "existential", 1000)
        s2 == RecordTemporalTo(s1, t2, "first_awareness", "long_term", 900)
    IN  RecordTemporalTo(s2, t3, "identity_formation_start", "long_term", 800)

-----------------------------------------------------------------------------
(* Initial values of the components (the constructors) *)

\* self.system_metrics = None (consciousness_core.py:80)
NoMetrics == [none |-> TRUE]

\* the registered modules that have a get_status method; the temporal store
\* and the workspace have none
StatusReporters ==
    {"social_cognition", "creative_intelligence", "value_learning",
     "virtue_learning", "safety_monitor"}

\* GlobalWorkspaceSystem.__init__ followed by the admissions recorded in w
WorkspaceIs(w) ==
    /\ workspace_contents = w.contents
    /\ attention_focus = w.focus
    /\ admissions = w.log
    /\ module_connections = EmptyMap
    /\ ws_initialized = FALSE
    /\ consciousness_metrics = InitialMetrics

\* TemporalConsciousnessSystem.__init__
TemporalConstructed ==
    /\ temporal_events = EmptyMap
    /\ events_processed = 0
    /\ tc_initialized = FALSE

\* ConsciousnessCore.__init__
CoreConstructed ==
    /\ system_status = "inactive"
    /\ core_initialized = FALSE
    /\ module_statuses = EmptyMap
    /\ monitoring_enabled = FALSE
    /\ monitoring_thread = "none"
    /\ mon_pc = "none"
    /\ system_metrics = NoMetrics
    /\ module_initialized = [m \in StatusReporters |-> FALSE]
    /\ stop_pending = FALSE

\* ConsciousnessManager.__init__
ManagerConstructed ==
    /\ processing_enabled = TRUE
    /\ mgr_initialized = FALSE
    /\ integration_thread = "none"

\* no thread is inside add_content and nothing has read the workspace
NoThreads ==
    /\ producers = EmptyMap
    /\ observed = NoResult
    /\ callers = EmptyMap
    /\ orphaned = <<>>

\* no helper has been called on its own
NothingApplied == applied = <<>>

-----------------------------------------------------------------------------
(* Spec: a GlobalWorkspaceSystem and its callers *)

\* Readings the clock can give after the reading t: strictly later, by one
\* tick (possibly the same millisecond) or by a millisecond
After(t) == {t + 1, t + TicksPerMs}

\* Readings the clock can give to the next call
NextReadings == After(clock)

\* GlobalWorkspaceSystem.initialize, as a state change of the workspace
WsInitializeEffect ==
    /\ module_connections' =
           [m \in DOMAIN module_connections \cup ConfiguredModules |->
               IF m \in ConfiguredModules THEN InitialModuleConnections[m]
               ELSE module_connections[m]]
    /\ ws_initialized' = TRUE
    /\ UNCHANGED <<workspace_contents, attention_focus, consciousness_metrics>>

\* module_connections after a lookup that stores the default it returns
ConnectionsAfterLookup_SetDefault(conns, source_module) ==
    IF source_module \in DOMAIN conns THEN conns ELSE Put(conns, source_module, 500)

\* module_connections after _calculate_coherence has looked source_module up
\* with module_connections.get(source_module, 0.5) (line 168)
ConnectionsAfterLookup(conns, source_module) == conns

\* GlobalWorkspaceSystem.add_content read at clock reading t, as a state
\* change of the workspace; the id it returns is MsOf(t)
AddContentEffect(t, source_module, content_type, nkeys, priority) ==
    LET w == AddContentTo([contents |-> workspace_contents,
                           focus    |-> attention_focus,
                           log      |-> admissions],
                          t, source_module, content_type, nkeys, priority,
                          module_connections)
    IN  /\ workspace_contents' = w.contents
        /\ attention_focus' = w.focus
        /\ admissions' = w.log
        /\ module_connections' = ConnectionsAfterLookup(module_connections, source_module)
        /\ UNCHANGED <<ws_initialized, consciousness_metrics>>

\* the metrics after get_workspace_state has run: untouched when the
\* workspace is not initialized (lines 116-117), recomputed otherwise (line 119)
MetricsAfterQuery ==
    IF ws_initialized
    THEN UpdateConsciousnessMetrics(consciousness_metrics, workspace_contents,
                                    DictKeys(admissions))
    ELSE consciousness_metrics

\* the ids stored by add_content calls that have not yet returned from
\* _update_attention_focus
InProgress ==
    {producers[p].content_id : p \in {q \in DOMAIN producers : producers[q].pc # "idle"}}

\* GlobalWorkspaceSystem.get_workspace_state, as a state change of the
\* workspace; observed is what it returns, with the length of the ordering it
\* slices and the ids it lists whose add_content call is still in progress
GetWorkspaceStateEffect ==
    LET metrics  == MetricsAfterQuery
        returned == WorkspaceState(ws_initialized, metrics,
                                   workspace_contents, DictKeys(admissions),
                                   attention_focus)
        probe == [focus_len   |-> Len(attention_focus),
                  in_progress |-> InProgress]
    IN  /\ consciousness_metrics' = metrics
        /\ observed' =
               IF "error" \in DOMAIN returned THEN returned
               ELSE [f \in DOMAIN returned \cup DOMAIN probe |->
                        IF f \in DOMAIN returned THEN returned[f] ELSE probe[f]]
        /\ attention_focus' =
               IF ws_initialized THEN FocusAfterSlice(attention_focus)
               ELSE attention_focus
        /\ UNCHANGED <<workspace_contents, module_connections, ws_initialized>>

\* a caller runs GlobalWorkspaceSystem.initialize()
WsInitialize ==
    /\ WsInitializeEffect
    /\ UNCHANGED <<obsVars, tcVars, coreVars, mgrVars, thrVars, fnVars>>

\* a caller runs GlobalWorkspaceSystem.add_content(source, type, data, priority)
AddContent ==
    /\ calls < MaxAdmit
    /\ \E t \in NextReadings, source_module \in Sources,
          nkeys \in KeyCounts, priority \in Priorities :
          /\ AddContentEffect(t, source_module, "experience", nkeys, priority)
          /\ clock' = t
    /\ calls' = calls + 1
    /\ UNCHANGED <<op, result, stop_pending>>
    /\ UNCHANGED <<tcVars, coreVars, mgrVars, thrVars, fnVars>>

\* The workspace as constructed, or after FocusCap - 1 earlier admissions
Init ==
    /\ \E n \in {0, FocusCap - 1} :
          /\ WorkspaceIs(Prefilled(n))
          /\ clock = n * TicksPerMs
    /\ TemporalConstructed
    /\ CoreConstructed
    /\ ManagerConstructed
    /\ NoThreads
    /\ NothingApplied
    /\ op = "construct"
    /\ result = NoResult
    /\ calls = 0

Next == WsInitialize \/ AddContent

Spec == Init /\ [][Next]_vars

-----------------------------------------------------------------------------
(* Properties of the workspace, checked under Spec *)

\* the admissions whose item was classified Conscious, as indices of the log
ConsciousAdmissions == {i \in 1..Len(admissions) : admissions[i].level = "conscious"}

Max(S) == CHOOSE x \in S : \A y \in S : y <= x

\* the position in the log of the admission that stored the item now held
\* under content_id
AdmissionOf(content_id) ==
    Max({i \in 1..Len(admissions) : admissions[i].id = content_id})

\* the focus entries whose item is not Conscious, as positions of the ordering
NonConsciousPositions ==
    {i \in 1..Len(attention_focus) :
        workspace_contents[attention_focus[i]].attention_level # "conscious"}

\* C1: after any sequence of add_content calls the focus ordering
\* attention_focus holds at most 50 entries.
C1_FocusNeverExceedsCap == Len(attention_focus) <= FocusCap

\* C1 witness: more than 50 items were admitted, the cap has cut the ordering
\* and the ordering is full.
C1_CapReached ==
    /\ Cardinality(DOMAIN workspace_contents) > FocusCap
    /\ Len(attention_focus) = FocusCap
    /\ calls > 0

\* C2: an admission classified Conscious puts its id at position 0 of the
\* ordering, and two Conscious admissions in a row leave the second at
\* position 0 and the first at position 1, both present.
C2_ConsciousAdmittedAtHead ==
    LET n == Len(admissions)
    IN  /\ (n >= 1 /\ admissions[n].level = "conscious")
              => /\ Len(attention_focus) >= 1
                 /\ attention_focus[1] = admissions[n].id
        /\ (n >= 2 /\ admissions[n].level = "conscious"
                   /\ admissions[n-1].level = "conscious")
              => /\ Len(attention_focus) >= 2
                 /\ attention_focus[1] = admissions[n].id
                 /\ attention_focus[2] = admissions[n-1].id
                 /\ admissions[n].id # admissions[n-1].id

\* C3: once a Conscious item has been admitted, position 0 of the ordering
\* is the most recently admitted Conscious item, whatever was admitted since.
C3_LatestConsciousLeads ==
    ConsciousAdmissions # {}
        => /\ Len(attention_focus) >= 1
           /\ attention_focus[1] = admissions[Max(ConsciousAdmissions)].id

\* C4: the non-Conscious entries of the ordering appear in non-increasing
\* priority order, and of two with equal priority the earlier admitted one
\* comes first.
C4_NonConsciousSortedStable ==
    \A i, j \in NonConsciousPositions :
        i < j =>
            LET a == workspace_contents[attention_focus[i]]
                b == workspace_contents[attention_focus[j]]
            IN  /\ a.priority >= b.priority
                /\ a.priority = b.priority
                      => AdmissionOf(a.content_id) < AdmissionOf(b.content_id)

\* C5: every admission returns an id distinct from every id returned before,
\* so each admission adds exactly one item to the backing map and replaces
\* none.
C5_IdsUnique ==
    /\ \A i, j \in 1..Len(admissions) :
          i # j => admissions[i].id # admissions[j].id
    /\ Cardinality(DOMAIN workspace_contents) = Len(admissions)

\* the item stored by the add_content call that has just returned
Admitted == workspace_contents[admissions[Len(admissions)].id]

\* C14: every add_content call stores an item whose coherence is
\* (min(1, keys / 10) + strength of its producer) / 2 and whose level is the
\* classification of (priority, that coherence); an unconfigured producer
\* (strength 0.5) with a one-key payload and priority 0.9 gets coherence 0.3,
\* combined exactly 0.6, and is stored as Peripheral, not Focused.
C14_AdmitStoresCoherenceAndLevel ==
    [][ Len(admissions') = Len(admissions) + 1 =>
        LET item     == Admitted'
            richness == IF item.nkeys >= 10 THEN 1000 ELSE 100 * item.nkeys
            strength == IF item.source_module \in DOMAIN module_connections
                        THEN module_connections[item.source_module] ELSE 500
            combined == CombinedScore(item.priority, item.coherence_score)
        IN  /\ 2 * item.coherence_score = richness + strength
            /\ item.attention_level =
                   IF combined > Literal(800) THEN "conscious"
                   ELSE IF combined > Literal(600) THEN "focused"
                   ELSE IF combined > Literal(400) THEN "peripheral"
                   ELSE "background"
            /\ (strength = 500 /\ item.nkeys = 1 /\ item.priority = 900)
                   => /\ item.coherence_score = 300
                      /\ combined = Literal(600)
                      /\ item.attention_level = "peripheral" ]_vars

\* C14 witness: the call that has just returned stored a one-key payload of
\* priority 0.9 from an unconfigured producer, with coherence 0.3, as
\* Peripheral, in a workspace that has configured connections.
C14_BoundaryItemPeripheral ==
    /\ calls > 0
    /\ ws_initialized
    /\ Admitted.source_module \notin DOMAIN module_connections
    /\ Admitted.nkeys = 1
    /\ Admitted.priority = 900
    /\ Admitted.coherence_score = 300
    /\ Admitted.attention_level = "peripheral"

\* C15: the level, the priority and the coherence stored under an id are the
\* same in every later state, whatever calls follow the admission.
C15_FixedAtAdmission ==
    [][ \A id \in DOMAIN workspace_contents :
           /\ id \in DOMAIN workspace_contents'
           /\ workspace_contents'[id].attention_level
                  = workspace_contents[id].attention_level
           /\ workspace_contents'[id].priority = workspace_contents[id].priority
           /\ workspace_contents'[id].coherence_score
                  = workspace_contents[id].coherence_score ]_vars

\* the ids held in an ordering
IdsOf(focus) == {focus[i] : i \in 1..Len(focus)}

\* an ordering without the id x
Without(focus, x) == SelectSeq(focus, LAMBDA y : y # x)

\* C17: the cap drops only entries beyond position 50 of the ordering, and
\* only from the ordering: an id cut out of attention_focus is still a key of
\* workspace_contents, is counted in total_contents and is listed in the
\* group of its attention level.
C17_CapDropsOnlyTailFromOrdering ==
    [][ Len(admissions') = Len(admissions) + 1 =>
        LET new     == admissions'[Len(admissions')].id
            item    == workspace_contents'[new]
            Dropped == IdsOf(attention_focus) \ IdsOf(attention_focus')
            Cut     == Dropped \cup ({new} \ IdsOf(attention_focus'))
            kept    == Without(attention_focus', new)
        IN  \* what leaves the ordering is its last entry, pushed to position 51
            /\ \A id \in Dropped :
                   /\ Len(attention_focus) = FocusCap
                   /\ id = attention_focus[FocusCap]
            \* or the new id, when it was appended at position 51
            /\ new \notin IdsOf(attention_focus')
                   => /\ Len(attention_focus) = FocusCap
                      /\ item.attention_level # "conscious"
                      /\ \A id \in IdsOf(attention_focus) :
                             workspace_contents[id].priority >= item.priority
            \* the other entries stay, in their order
            /\ kept = SubSeq(Without(attention_focus, new), 1, Len(kept))
            \* nothing leaves the backing map
            /\ DOMAIN workspace_contents \subseteq DOMAIN workspace_contents'
            /\ TotalContents(workspace_contents')
                   = Cardinality(DOMAIN workspace_contents \cup {new})
            /\ \A id \in Cut :
                   /\ id \in DOMAIN workspace_contents'
                   /\ id # new => workspace_contents'[id] = workspace_contents[id]
                   /\ id \in ContentsByAttention(workspace_contents',
                             workspace_contents'[id].attention_level) ]_vars

\* C17 witness: an item admitted before the ordering was full has been pushed
\* out of it by later admissions and is still in the backing map, counted and
\* listed under its level.
C17_DroppedItemKept ==
    /\ calls >= 2
    /\ Len(attention_focus) = FocusCap
    /\ \E id \in DOMAIN workspace_contents \ IdsOf(attention_focus) :
          /\ AdmissionOf(id) < FocusCap
          /\ id \in ContentsByAttention(workspace_contents, "background")
          /\ TotalContents(workspace_contents) > FocusCap

-----------------------------------------------------------------------------
(* SpecCore: a ConsciousnessCore, its workspace and its temporal store *)

\* calls of SpecCore that read the clock, explored after construction
MaxCalls == 3

\* ConsciousnessCore.modules (consciousness_core.py:67-75)
CoreModules ==
    {"temporal_consciousness", "global_workspace", "social_cognition",
     "creative_intelligence", "value_learning", "virtue_learning",
     "safety_monitor"}

\* experience_data['type'] values drawn by the model
ExperienceTypes == {"experience", "decision"}

\* the dicts process_experience returns on its two error paths
NotActive == [error |-> "System not active"]
Raised(what) == [error |-> what]

\* TemporalConsciousnessSystem.initialize: the three foundational events are
\* recorded at the readings t1 < t2 < t3
TemporalInitializeEffect(t1, t2, t3) ==
    LET s == CreateFoundationalEvents(
                 [events |-> temporal_events, processed |-> events_processed],
                 t1, t2, t3)
    IN  /\ temporal_events' = s.events
        /\ events_processed' = s.processed
        /\ tc_initialized' = TRUE

\* TemporalConsciousnessSystem.process_temporal_experience as a state change
RecordTemporalEffect(t, event_type, given_scale, significance) ==
    LET s == RecordTemporalTo(
                 [events |-> temporal_events, processed |-> events_processed],
                 t, event_type, given_scale, significance)
    IN  /\ temporal_events' = s.events
        /\ events_processed' = s.processed
        /\ UNCHANGED tc_initialized

\* _start_monitoring (lines 393-401)
StartMonitoringEffect ==
    IF monitoring_thread = "alive"
    THEN UNCHANGED <<monitoring_enabled, monitoring_thread, mon_pc>>
    ELSE /\ monitoring_enabled' = TRUE
         /\ monitoring_thread' = "alive"
         /\ mon_pc' = "test"

\* _update_module_statuses (lines 425-447): every registered module is set to
\* what its get_status() reports, 'active' when the module's initialized flag
\* is set and 'inactive' otherwise, and to 'active' when it has no get_status
ReportedStatuses ==
    [m \in DOMAIN module_statuses |->
        IF m \in StatusReporters /\ ~module_initialized[m]
        THEN "inactive" ELSE "active"]

\* _update_metrics (lines 449-459) once the module statuses are `statuses`
UpdatedMetrics(statuses) ==
    IF system_metrics = NoMetrics THEN system_metrics
    ELSE [system_metrics EXCEPT
             !.modules_online =
                 Cardinality({m \in DOMAIN statuses : statuses[m] = "active"})]

\* line 143 with the test for a failure of every module dropped
NoneSucceeded_Never(succeeded) == FALSE

\* line 143: successful_modules == 0
NoneSucceeded(succeeded) == succeeded = {}

\* ConsciousnessCore.initialize (lines 100-179) when the initialize() of
\* exactly the modules in `succeeded` returns True.  A module whose
\* initialize() fails raises before it has changed anything.
CoreInitializeOutcome(succeeded) ==
    /\ IF "temporal_consciousness" \in succeeded
       THEN \E t1 \in After(clock) : \E t2 \in After(t1) : \E t3 \in After(t2) :
               /\ TemporalInitializeEffect(t1, t2, t3)
               /\ clock' = t3
       ELSE UNCHANGED <<tcVars, clock>>
    /\ IF "global_workspace" \in succeeded
       THEN WsInitializeEffect
       ELSE UNCHANGED wsVars
    /\ module_initialized' =
           [m \in StatusReporters |-> module_initialized[m] \/ m \in succeeded]
    /\ module_statuses' =
           [m \in CoreModules |-> IF m \in succeeded THEN "active" ELSE "error"]
    /\ IF NoneSucceeded(succeeded)
       THEN /\ system_status' = "error"
            /\ result' = [value |-> FALSE]
            /\ UNCHANGED <<core_initialized, system_metrics, monitoring_enabled,
                           monitoring_thread, mon_pc>>
       ELSE /\ system_status' = "active"
            /\ system_metrics' = [modules_online |-> Cardinality(succeeded),
                                  total_modules  |-> Cardinality(CoreModules)]
            /\ StartMonitoringEffect
            /\ core_initialized' = TRUE
            /\ result' = [value |-> TRUE]
    /\ stop_pending' = FALSE
    /\ calls' = calls + 1
    /\ UNCHANGED <<admissions, mgrVars, thrVars, fnVars>>

\* ConsciousnessCore.initialize when every module's initialize() returns True,
\* so that successful_modules = total_modules
CoreInitializeEffect == CoreInitializeOutcome(CoreModules)

\* the server's bootstrap (or any caller) runs ConsciousnessCore.initialize()
CoreInitialize ==
    /\ calls < MaxCalls
    /\ CoreInitializeEffect
    /\ op' = "initialize"

\* line 188 with the status test dropped
CoreAccepts_InitializedOnly == core_initialized

\* line 188: process_experience goes on only when initialized and active
CoreAccepts == core_initialized /\ system_status = "active"

\* ConsciousnessCore.process_experience(experience_data) (lines 186-271).
\* When accepted, the temporal event is recorded (lines 196-200); the call
\* self.global_workspace.update_workspace on line 204 then raises
\* AttributeError, GlobalWorkspaceSystem having no such method, and the
\* handler on lines 263-271 returns the error dict.
ProcessExperience ==
    /\ op' = "process_experience"
    /\ IF ~CoreAccepts
       THEN /\ result' = NotActive
            /\ UNCHANGED <<clock, calls>>
            /\ UNCHANGED tcVars
       ELSE /\ calls < MaxCalls
            /\ \E t \in NextReadings, event_type \in ExperienceTypes :
                  /\ RecordTemporalEffect(t, event_type, NoScale, 500)
                  /\ clock' = t
            /\ result' = Raised("AttributeError")
            /\ calls' = calls + 1
    /\ UNCHANGED <<wsVars, coreVars, mgrVars, admissions, stop_pending, thrVars, fnVars>>

\* ConsciousnessCore.emergency_stop (lines 299-333).  The modules' cleanup()
\* touches neither the workspace nor the temporal store.
EmergencyStop ==
    /\ system_status' = "emergency_stop"
    /\ monitoring_enabled' = FALSE
    /\ module_statuses' = [m \in DOMAIN module_statuses |-> "inactive"]
    /\ stop_pending' = TRUE
    /\ op' = "emergency_stop"
    /\ result' = [value |-> TRUE]
    /\ UNCHANGED <<core_initialized, monitoring_thread, mon_pc, system_metrics,
                   module_initialized>>
    /\ UNCHANGED <<wsVars, tcVars, mgrVars, thrVars, fnVars, clock, calls, admissions>>

\* ConsciousnessCore.resume_system (lines 339-360)
ResumeSystem ==
    /\ op' = "resume_system"
    /\ IF system_status = "emergency_stop"
       THEN /\ calls < MaxCalls
            /\ CoreInitializeEffect
       ELSE /\ system_status' = "active"
            /\ IF monitoring_thread # "alive"
               THEN StartMonitoringEffect
               ELSE /\ monitoring_enabled' = TRUE
                    /\ UNCHANGED <<monitoring_thread, mon_pc>>
            /\ result' = [value |-> TRUE]
            /\ UNCHANGED <<core_initialized, module_statuses, system_metrics,
                           module_initialized>>
            /\ UNCHANGED <<wsVars, tcVars, mgrVars, thrVars, fnVars, clock, calls,
                           admissions, stop_pending>>

\* ConsciousnessCore.pause_system (lines 366-378)
PauseSystem ==
    /\ system_status' = "paused"
    /\ op' = "pause_system"
    /\ result' = [value |-> TRUE]
    /\ UNCHANGED <<core_initialized, module_statuses, monitoring_enabled,
                   monitoring_thread, mon_pc, system_metrics, module_initialized>>
    /\ UNCHANGED <<wsVars, tcVars, mgrVars, thrVars, fnVars, clock, calls, admissions,
                   stop_pending>>

\* one cycle of _monitoring_loop (lines 405-419): _update_module_statuses
\* sets every registered module to what its get_status() reports, 'active'
\* for an initialised module and for a module without get_status
MonitoringCycle ==
    /\ monitoring_thread = "alive"
    /\ monitoring_enabled
    /\ module_statuses' = ReportedStatuses
    /\ system_metrics' = UpdatedMetrics(ReportedStatuses)
    /\ op' = "_monitoring_loop"
    /\ UNCHANGED <<system_status, core_initialized, monitoring_enabled,
                   monitoring_thread, mon_pc, module_initialized>>
    /\ UNCHANGED <<wsVars, tcVars, mgrVars, thrVars, fnVars, clock, result, calls,
                   admissions, stop_pending>>

\* _monitoring_loop finds monitoring_enabled False on line 405 and returns
MonitoringExit ==
    /\ monitoring_thread = "alive"
    /\ ~monitoring_enabled
    /\ monitoring_thread' = "dead"
    /\ mon_pc' = "done"
    /\ op' = "_monitoring_loop"
    /\ UNCHANGED <<system_status, core_initialized, module_statuses,
                   monitoring_enabled, system_metrics, module_initialized>>
    /\ UNCHANGED <<wsVars, tcVars, mgrVars, thrVars, fnVars, clock, result, calls,
                   admissions, stop_pending>>

\* ConsciousnessCore.__init__
InitCore ==
    /\ WorkspaceIs(EmptyWorkspace)
    /\ TemporalConstructed
    /\ CoreConstructed
    /\ ManagerConstructed
    /\ NoThreads
    /\ NothingApplied
    /\ clock = 0
    /\ op = "construct"
    /\ result = NoResult
    /\ calls = 0

NextCore ==
    \/ CoreInitialize
    \/ ProcessExperience
    \/ EmergencyStop
    \/ ResumeSystem
    \/ PauseSystem
    \/ MonitoringCycle
    \/ MonitoringExit

SpecCore == InitCore /\ [][NextCore]_vars

-----------------------------------------------------------------------------
(* Properties of ConsciousnessCore, checked under SpecCore *)

\* the two stores as one value
Stores == <<workspace_contents, attention_focus, temporal_events, events_processed>>

\* C6: from 'emergency_stop' no sequence of pause_system / resume_system /
\* emergency_stop calls reaches 'active' unless initialize has run since the
\* stop.
C6_StopLeftOnlyByInitialize == stop_pending => system_status # "active"

\* C7: while system_status is 'paused' or 'emergency_stop', process_experience
\* returns the not-active result and changes neither the workspace nor the
\* temporal store.
C7_IngestRejectedWhenNotActive ==
    [][ (op' = "process_experience"
            /\ system_status \in {"paused", "emergency_stop"})
        => /\ result' = NotActive
           /\ Stores' = Stores ]_vars

\* C7 witness: the core was initialised and recorded events, was paused, and
\* a process_experience call has returned the not-active result.
C7_RejectedWhilePaused ==
    /\ op = "process_experience"
    /\ system_status = "paused"
    /\ core_initialized
    /\ result = NotActive
    /\ events_processed > 0

\* C8: resume_system from 'emergency_stop' (the forced reinitialize) leaves
\* both stores empty: total_contents is 0 and the temporal store holds no
\* event.
C8_StoresEmptyAfterReinitialize ==
    [][ (op' = "resume_system" /\ system_status = "emergency_stop")
        => /\ Cardinality(DOMAIN workspace_contents') = 0
           /\ DOMAIN temporal_events' = {} ]_vars

\* C9: in the active state every process_experience call is accepted: it
\* records one temporal event, admits one content item into the workspace and
\* returns a result without an error.
C9_ActiveIngestAccepted ==
    [][ (op' = "process_experience" /\ core_initialized
            /\ system_status = "active")
        => /\ "error" \notin DOMAIN result'
           /\ Cardinality(DOMAIN temporal_events')
                 = Cardinality(DOMAIN temporal_events) + 1
           /\ Cardinality(DOMAIN workspace_contents')
                 = Cardinality(DOMAIN workspace_contents) + 1 ]_vars

\* C33: a process_experience call that returns an error result has changed
\* no store: the set of temporal events, events_processed, workspace_contents
\* and attention_focus are the same as before the call.
C33_ErrorResultChangesNoStore ==
    [][ (op' = "process_experience" /\ "error" \in DOMAIN result')
        => /\ DOMAIN temporal_events' = DOMAIN temporal_events
           /\ events_processed' = events_processed
           /\ workspace_contents' = workspace_contents
           /\ attention_focus' = attention_focus ]_vars

\* C34: whenever resume_system has returned True and system_status is
\* 'active', periodic monitoring is running: monitoring_enabled is True and
\* the monitoring thread is alive, also when the resume follows an
\* emergency_stop that the previous monitoring thread has not yet noticed.
C34_ResumedSystemIsMonitored ==
    (op = "resume_system" /\ result = [value |-> TRUE] /\ system_status = "active")
        => /\ monitoring_enabled
           /\ monitoring_thread = "alive"

-----------------------------------------------------------------------------
(* SpecManager: a ConsciousnessManager, its workspace and its temporal store *)

\* calls of SpecManager that read the clock, explored after construction
MaxMgrCalls == 2

\* the action argument of execute_emergency_action
EmergencyActions == {"pause", "stop", "quarantine", "restart"}

\* _start_integration_processing (lines 205-212)
StartIntegrationEffect ==
    IF integration_thread # "alive"
    THEN /\ processing_enabled' = TRUE
         /\ integration_thread' = "alive"
    ELSE UNCHANGED <<processing_enabled, integration_thread>>

\* ConsciousnessManager.initialize (lines 48-66)
MgrInitialize ==
    /\ calls < MaxMgrCalls
    /\ WsInitializeEffect
    /\ \E t1 \in After(clock) : \E t2 \in After(t1) : \E t3 \in After(t2) :
          /\ TemporalInitializeEffect(t1, t2, t3)
          /\ clock' = t3
    /\ StartIntegrationEffect
    /\ mgr_initialized' = TRUE
    /\ op' = "manager.initialize"
    /\ result' = [value |-> TRUE]
    /\ calls' = calls + 1
    /\ UNCHANGED <<coreVars, thrVars, fnVars, admissions, stop_pending>>

\* ConsciousnessManager.process_experience(experience_data) (lines 72-98):
\* the temporal event is recorded at reading t1, the content item admitted
\* at reading t2; processing_enabled is not consulted
MgrProcessExperience ==
    /\ calls < MaxMgrCalls
    /\ \E t1 \in After(clock) : \E t2 \in After(t1) :
       \E source_module \in Sources, nkeys \in KeyCounts, priority \in Priorities :
          /\ RecordTemporalEffect(t1, "experience", NoScale, 500)
          /\ AddContentEffect(t2, source_module, "experience", nkeys, priority)
          /\ clock' = t2
          /\ result' = [temporal_event_id    |-> MsOf(t1),
                        workspace_content_id |-> MsOf(t2)]
    /\ op' = "manager.process_experience"
    /\ calls' = calls + 1
    /\ UNCHANGED <<coreVars, mgrVars, thrVars, fnVars, stop_pending>>

\* ConsciousnessManager.execute_emergency_action(action, reason) (lines
\* 146-169); the quarantine counter of safety_status is not part of the state
ExecuteEmergencyAction ==
    /\ \E action \in EmergencyActions :
          /\ processing_enabled' =
                 IF action \in {"pause", "stop"} THEN FALSE ELSE processing_enabled
          /\ result' = [value |-> action \in {"pause", "stop", "quarantine"}]
    /\ op' = "execute_emergency_action"
    /\ UNCHANGED <<mgr_initialized, integration_thread>>
    /\ UNCHANGED <<wsVars, tcVars, coreVars, thrVars, fnVars, clock, calls, admissions,
                   stop_pending>>

\* one cycle of _integration_loop (lines 216-227): get_workspace_state is
\* called (line 244) and recomputes the workspace's metrics; the manager's own
\* metrics, which it writes from what the call returns, are not part of the
\* state
IntegrationCycle ==
    /\ integration_thread = "alive"
    /\ processing_enabled
    /\ consciousness_metrics' = MetricsAfterQuery
    /\ op' = "_integration_loop"
    /\ UNCHANGED <<workspace_contents, attention_focus, module_connections,
                   ws_initialized>>
    /\ UNCHANGED <<tcVars, coreVars, mgrVars, thrVars, fnVars, clock, result,
                   calls, admissions, stop_pending>>

\* _integration_loop finds processing_enabled False on line 216 and returns
IntegrationExit ==
    /\ integration_thread = "alive"
    /\ ~processing_enabled
    /\ integration_thread' = "dead"
    /\ op' = "_integration_loop"
    /\ UNCHANGED <<processing_enabled, mgr_initialized>>
    /\ UNCHANGED <<wsVars, tcVars, coreVars, thrVars, fnVars, clock, result, calls,
                   admissions, stop_pending>>

\* ConsciousnessManager.__init__ (the module-level instance, line 305)
InitManager ==
    /\ WorkspaceIs(EmptyWorkspace)
    /\ TemporalConstructed
    /\ CoreConstructed
    /\ ManagerConstructed
    /\ NoThreads
    /\ NothingApplied
    /\ clock = 0
    /\ op = "construct"
    /\ result = NoResult
    /\ calls = 0

NextManager ==
    \/ MgrInitialize
    \/ MgrProcessExperience
    \/ ExecuteEmergencyAction
    \/ IntegrationCycle
    \/ IntegrationExit

SpecManager == InitManager /\ [][NextManager]_vars

-----------------------------------------------------------------------------
(* Properties of ConsciousnessManager, checked under SpecManager *)

\* C10: after execute_emergency_action('pause') or ('stop'), while processing
\* is disabled, a ConsciousnessManager.process_experience call adds no
\* workspace item, records no temporal event, and returns a result that
\* carries neither id, so that the caller can tell it was rejected.
C10_ManagerIngestOnlyWhileEnabled ==
    [][ (op' = "manager.process_experience" /\ ~processing_enabled)
        => /\ Stores' = Stores
           /\ DOMAIN result' \cap {"temporal_event_id", "workspace_content_id"} = {} ]_vars

-----------------------------------------------------------------------------
(* SpecPure: the scoring helpers of GlobalWorkspaceSystem called on their own *)

\* priority and coherence_score arguments drawn by the model; the sums reach
\* 0.4, 0.6 and 0.8 exactly, and 0.4 + 0.8 is a sum that is rounded up
PurePriorities  == {-500, 0, 400, 600, 800, 900, 1000, 1500}
PureCoherences  == {0, 300, 400, 600, 700, 800, 1000}
\* len(data) and source_module arguments drawn by the model
PureKeyCounts   == {0, 1, 5, 10, 15}
PureSources     == {"temporal_consciousness", "social_cognition", "external"}

\* the applications kept in `applied` after one more
Remember(application) ==
    IF applied = <<>> THEN <<application>>
    ELSE <<applied[Len(applied)], application>>

\* a caller evaluates _determine_attention_level(priority, coherence_score)
DetermineAttentionLevelCall ==
    /\ \E priority \in PurePriorities, coherence_score \in PureCoherences :
          applied' = Remember(
              [fn    |-> "_determine_attention_level",
               args  |-> [priority |-> priority, coherence_score |-> coherence_score],
               value |-> [level |-> DetermineAttentionLevel(priority, coherence_score)]])
    /\ UNCHANGED <<wsVars, tcVars, coreVars, mgrVars, obsVars, thrVars>>

\* a caller evaluates _calculate_coherence(data, source_module); the
\* module_connections the call reads are kept with its arguments
CalculateCoherenceCall ==
    /\ \E nkeys \in PureKeyCounts, source_module \in PureSources :
          applied' = Remember(
              [fn    |-> "_calculate_coherence",
               args  |-> [nkeys |-> nkeys, source_module |-> source_module,
                          module_connections |-> module_connections],
               value |-> [score |-> CalculateCoherence(nkeys, source_module,
                                                       module_connections)]])
    /\ UNCHANGED <<wsVars, tcVars, coreVars, mgrVars, obsVars, thrVars>>

\* GlobalWorkspaceSystem.__init__
InitPure ==
    /\ WorkspaceIs(EmptyWorkspace)
    /\ TemporalConstructed
    /\ CoreConstructed
    /\ ManagerConstructed
    /\ NoThreads
    /\ NothingApplied
    /\ clock = 0
    /\ op = "construct"
    /\ result = NoResult
    /\ calls = 0

NextPure ==
    \/ WsInitialize
    \/ DetermineAttentionLevelCall
    \/ CalculateCoherenceCall

SpecPure == InitPure /\ [][NextPure]_vars

-----------------------------------------------------------------------------
(* Properties of the scoring helpers, checked under SpecPure *)

\* the applications of _determine_attention_level held in `applied`
Classified ==
    {i \in 1..Len(applied) : applied[i].fn = "_determine_attention_level"}

\* the combined score of the i-th application held in `applied`
CombinedOf(i) ==
    CombinedScore(applied[i].args.priority, applied[i].args.coherence_score)

\* Background < Peripheral < Focused < Conscious
LevelRank(level) ==
    CASE level = "background" -> 0
      [] level = "peripheral" -> 1
      [] level = "focused"    -> 2
      [] level = "conscious"  -> 3

\* C11: the level returned for (priority, coherence) is Conscious iff
\* combined > 0.8, Focused iff 0.6 < combined <= 0.8, Peripheral iff
\* 0.4 < combined <= 0.6 and Background iff combined <= 0.4, where combined
\* is (priority + coherence) / 2; a combined score of exactly 0.8, 0.6 or 0.4
\* gets the lower level.
C11_ClassifyStrictThresholds ==
    \A i \in Classified :
        LET combined == CombinedOf(i)
            level    == applied[i].value.level
        IN  /\ level = "conscious"  <=> combined > Literal(800)
            /\ level = "focused"    <=> (Literal(600) < combined /\ combined <= Literal(800))
            /\ level = "peripheral" <=> (Literal(400) < combined /\ combined <= Literal(600))
            /\ level = "background" <=> combined <= Literal(400)

\* C11 witness: scores whose combined value is exactly 0.8 were classified
\* Focused, after scores whose combined value is exactly 0.4 were classified
\* Background.
C11_BoundaryClassified ==
    /\ Classified = {1, 2}
    /\ CombinedOf(1) = Literal(400) /\ applied[1].value.level = "background"
    /\ CombinedOf(2) = Literal(800) /\ applied[2].value.level = "focused"

\* C12: two applications with the same (priority, coherence) return the same
\* level, and of any two applications the one with the larger-or-equal
\* combined score never returns the lower level in the order
\* Background < Peripheral < Focused < Conscious.
C12_ClassifyDeterministicMonotone ==
    \A i, j \in Classified :
        /\ applied[i].args = applied[j].args
              => applied[i].value.level = applied[j].value.level
        /\ CombinedOf(i) >= CombinedOf(j)
              => LevelRank(applied[i].value.level) >= LevelRank(applied[j].value.level)

\* C12 witness: two applications with different arguments, the second with
\* the strictly larger combined score and the strictly higher level.
C12_HigherScoreHigherLevel ==
    /\ Classified = {1, 2}
    /\ CombinedOf(2) > CombinedOf(1)
    /\ LevelRank(applied[2].value.level) > LevelRank(applied[1].value.level)
    /\ applied[1].value.level # "background"

\* the applications of _calculate_coherence held in `applied`
Scored == {i \in 1..Len(applied) : applied[i].fn = "_calculate_coherence"}

\* C13: the coherence of a payload from a producer is
\* (min(1, number of payload keys / 10) + strength) / 2, where strength is the
\* configured connection strength of the producer, and 0.5 for a producer
\* without a configured connection.
C13_CoherenceFormula ==
    \A i \in Scored :
        LET nkeys    == applied[i].args.nkeys
            producer == applied[i].args.source_module
            richness == IF nkeys >= 10 THEN 1000 ELSE 100 * nkeys
            configured == applied[i].args.module_connections
            strength == IF producer \in DOMAIN configured
                        THEN configured[producer] ELSE 500
        IN  2 * applied[i].value.score = richness + strength

\* C13 witness: after initialize, a payload of more than ten keys from a
\* producer without a configured connection was scored, and before it a
\* payload from a configured producer.
C13_UnknownProducerScored ==
    /\ Scored = {1, 2}
    /\ applied[1].args.source_module \in DOMAIN applied[1].args.module_connections
    /\ applied[2].args.module_connections # EmptyMap
    /\ applied[2].args.source_module \notin DOMAIN applied[2].args.module_connections
    /\ applied[2].args.nkeys > 10

-----------------------------------------------------------------------------
(* SpecAnyPriority: a GlobalWorkspaceSystem whose callers pass any priority *)

\* priority arguments below, inside and above [0, 1]
AnyPriorities == {-500, 500, 1500}

\* a caller runs add_content(source, type, data, priority) with a priority
\* that need not lie in [0, 1] and gets the new id back (line 101)
AddContentAnyPriority ==
    /\ calls < MaxAdmit
    /\ \E t \in NextReadings, source_module \in Sources,
          nkeys \in KeyCounts, priority \in AnyPriorities :
          /\ AddContentEffect(t, source_module, "experience", nkeys, priority)
          /\ clock' = t
          /\ result' = [content_id |-> MsOf(t)]
    /\ op' = "add_content"
    /\ calls' = calls + 1
    /\ UNCHANGED stop_pending
    /\ UNCHANGED <<tcVars, coreVars, mgrVars, thrVars, fnVars>>

NextAnyPriority == WsInitialize \/ AddContentAnyPriority

SpecAnyPriority == InitPure /\ [][NextAnyPriority]_vars

\* C16: add_content succeeds for any priority value, and the priority stored
\* on every item of the workspace lies within [0, 1], a value outside being
\* clamped.
C16_PriorityClampedNotRejected ==
    /\ op = "add_content"
          => /\ "content_id" \in DOMAIN result
             /\ result.content_id \in DOMAIN workspace_contents
    /\ \A id \in DOMAIN workspace_contents :
          /\ workspace_contents[id].priority >= 0
          /\ workspace_contents[id].priority <= 1000

-----------------------------------------------------------------------------
(* SpecThreads: a GlobalWorkspaceSystem called from several threads.  No lock *)
(* guards workspace_contents or attention_focus, so another thread can run   *)
(* between any two statements of add_content.                                *)

\* add_content calls explored after the initial state of SpecThreads
MaxThreadAdmit == 2

\* the threads that call add_content
Producers == {"producer_1", "producer_2"}

\* a thread that is not inside add_content
Idle == [pc |-> "idle", content_id |-> -1]

\* len(data) of the payloads the producer threads admit
ThreadKeyCounts == {10}

\* lines 73-92 in thread p: the id is built from the clock, the item is built
\* and stored in workspace_contents
AddContentStore(p) ==
    /\ producers[p].pc = "idle"
    /\ calls < MaxThreadAdmit
    /\ \E t \in NextReadings, source_module \in Sources,
          nkeys \in ThreadKeyCounts, priority \in Priorities :
          LET content == NewContent(t, source_module, "experience", nkeys,
                                    priority, module_connections)
          IN  /\ workspace_contents' =
                     Put(workspace_contents, content.content_id, content)
              /\ admissions' = Append(admissions,
                                      [id       |-> content.content_id,
                                       level    |-> content.attention_level,
                                       priority |-> content.priority])
              /\ producers' = [producers EXCEPT
                                 ![p] = [pc         |-> "stored",
                                         content_id |-> content.content_id]]
              /\ module_connections' =
                     ConnectionsAfterLookup(module_connections, source_module)
              /\ clock' = t
    /\ calls' = calls + 1
    /\ UNCHANGED <<attention_focus, ws_initialized, consciousness_metrics>>
    /\ UNCHANGED <<op, result, stop_pending, observed, callers, orphaned>>
    /\ UNCHANGED <<tcVars, coreVars, mgrVars, fnVars>>

\* line 95 in thread p, up to line 209 of _update_attention_focus: the id is
\* removed from the ordering and inserted or appended
AddContentPlace(p) ==
    /\ producers[p].pc = "stored"
    /\ attention_focus' =
           PlaceInFocus(workspace_contents, attention_focus, producers[p].content_id)
    /\ producers' = [producers EXCEPT ![p].pc = "placed"]
    /\ UNCHANGED <<workspace_contents, module_connections, ws_initialized,
                   consciousness_metrics>>
    /\ UNCHANGED <<obsVars, observed, callers, orphaned>>
    /\ UNCHANGED <<tcVars, coreVars, mgrVars, fnVars>>

\* line 212 in thread p: the length of the ordering is tested; when it is
\* within the cap add_content returns
AddContentTest(p) ==
    /\ producers[p].pc = "placed"
    /\ producers' = [producers EXCEPT
                       ![p] = IF Len(attention_focus) > FocusCap
                              THEN [producers[p] EXCEPT !.pc = "over"]
                              ELSE Idle]
    /\ UNCHANGED wsVars
    /\ UNCHANGED <<obsVars, observed, callers, orphaned>>
    /\ UNCHANGED <<tcVars, coreVars, mgrVars, fnVars>>

\* line 213 in thread p, right-hand side: self.attention_focus[:50] builds a
\* new list from the ordering as it is now
AddContentSlice(p) ==
    /\ producers[p].pc = "over"
    /\ producers' = [producers EXCEPT
                       ![p] = [pc         |-> "sliced",
                               content_id |-> producers[p].content_id,
                               slice      |-> SubSeq(attention_focus, 1,
                                                     Min(FocusCap, Len(attention_focus)))]]
    /\ UNCHANGED wsVars
    /\ UNCHANGED <<obsVars, observed, callers, orphaned>>
    /\ UNCHANGED <<tcVars, coreVars, mgrVars, fnVars>>

\* line 213 in thread p, the assignment: the list built by the slice replaces
\* the ordering, after which add_content returns
AddContentTruncate(p) ==
    /\ producers[p].pc = "sliced"
    /\ attention_focus' = producers[p].slice
    /\ producers' = [producers EXCEPT ![p] = Idle]
    /\ UNCHANGED <<workspace_contents, module_connections, ws_initialized,
                   consciousness_metrics>>
    /\ UNCHANGED <<obsVars, observed, callers, orphaned>>
    /\ UNCHANGED <<tcVars, coreVars, mgrVars, fnVars>>

\* get_workspace_state run by a reader thread (the integration loop or a
\* request handler)
GetWorkspaceState ==
    /\ GetWorkspaceStateEffect
    /\ UNCHANGED <<producers, callers, orphaned>>
    /\ UNCHANGED <<tcVars, coreVars, mgrVars, obsVars, fnVars>>

\* the workspace as constructed or with a full ordering, no thread inside
\* add_content
InitThreads ==
    /\ \E n \in {0, FocusCap} :
          /\ WorkspaceIs(Prefilled(n))
          /\ clock = n * TicksPerMs
    /\ TemporalConstructed
    /\ CoreConstructed
    /\ ManagerConstructed
    /\ producers = [p \in Producers |-> Idle]
    /\ observed = NoResult
    /\ callers = EmptyMap
    /\ orphaned = <<>>
    /\ NothingApplied
    /\ op = "construct"
    /\ result = NoResult
    /\ calls = 0

NextThreads ==
    \/ WsInitialize
    \/ \E p \in Producers : AddContentStore(p)
    \/ \E p \in Producers : AddContentPlace(p)
    \/ \E p \in Producers : AddContentTest(p)
    \/ \E p \in Producers : AddContentSlice(p)
    \/ \E p \in Producers : AddContentTruncate(p)
    \/ GetWorkspaceState

SpecThreads == InitThreads /\ [][NextThreads]_vars

\* C18: a reader running concurrently with add_content calls of several
\* threads never sees a partially applied admission: it never finds more than
\* 50 ids in the focus ordering, and never an item in the backing map whose
\* placement in the ordering (insert and truncation) is not complete.
C18_AdmissionsAtomicForReaders ==
    "total_contents" \in DOMAIN observed
        => /\ observed.focus_len <= FocusCap
           /\ observed.in_progress = {}

\* C32: when two producer threads run add_content concurrently for two
\* Conscious items with distinct ids and both calls have returned, both ids
\* are in workspace_contents and, no admission having come after them, both
\* ids are in attention_focus.
C32_NoAdmissionLostFromOrdering ==
    LET n == Len(admissions)
    IN  (/\ \A p \in Producers : producers[p].pc = "idle"
         /\ calls >= 2
         /\ admissions[n].level = "conscious"
         /\ admissions[n-1].level = "conscious"
         /\ admissions[n].id # admissions[n-1].id)
            => \A id \in {admissions[n].id, admissions[n-1].id} :
                  /\ id \in DOMAIN workspace_contents
                  /\ \E k \in 1..Len(attention_focus) : attention_focus[k] = id

-----------------------------------------------------------------------------
(* SpecMonitor: a ConsciousnessCore and its monitoring thread, the thread     *)
(* taken statement by statement: the test of the while loop (line 405), the  *)
(* body of the try (lines 407-419) and the exception handler (lines 421-423) *)

\* initialize runs (each reads the clock three times) explored after
\* construction in SpecMonitor
MaxMonCalls == 2

\* exceptions a statement of the loop body can raise; all derive from Exception
Raisable == {"RuntimeError", "AttributeError"}

\* line 405 with the test dropped (while True)
MonitoringContinues_Always == TRUE

\* line 405: while self.monitoring_enabled
MonitoringContinues == monitoring_enabled

\* line 421 without a handler: nothing is caught
Caught_Nothing(exc) == FALSE

\* line 421: except Exception catches every exception the body raises
Caught(exc) == exc \in Raisable

\* what the rest of the state keeps during a step of the monitoring thread
MonitoringFrame ==
    /\ UNCHANGED <<system_status, core_initialized, monitoring_enabled,
                   module_initialized>>
    /\ UNCHANGED <<wsVars, tcVars, mgrVars, thrVars, fnVars, clock, result, calls,
                   admissions, stop_pending>>

\* line 405: the loop test; the thread enters the body or returns
MonitoringTest ==
    /\ monitoring_thread = "alive"
    /\ mon_pc = "test"
    /\ IF MonitoringContinues
       THEN /\ mon_pc' = "body"
            /\ UNCHANGED monitoring_thread
       ELSE /\ mon_pc' = "done"
            /\ monitoring_thread' = "dead"
    /\ op' = "_monitoring_loop.test"
    /\ UNCHANGED <<module_statuses, system_metrics>>
    /\ MonitoringFrame

\* lines 407-419 run to the end: _update_module_statuses sets every registered
\* module to 'active', the metrics, health check and callbacks leave the
\* modelled state alone, and the thread sleeps 2 s
MonitoringBody ==
    /\ monitoring_thread = "alive"
    /\ mon_pc = "body"
    /\ module_statuses' = ReportedStatuses
    /\ system_metrics' = UpdatedMetrics(ReportedStatuses)
    /\ mon_pc' = "test"
    /\ op' = "_monitoring_loop.body"
    /\ UNCHANGED monitoring_thread
    /\ MonitoringFrame

\* a statement of lines 407-419 raises, before or after _update_module_statuses
\* has run; a caught exception takes the thread to the handler, an uncaught
\* one ends it
MonitoringRaise ==
    /\ monitoring_thread = "alive"
    /\ mon_pc = "body"
    /\ \E exc \in Raisable, updated \in BOOLEAN :
          /\ module_statuses' = IF updated THEN ReportedStatuses
                                ELSE module_statuses
          /\ system_metrics' \in IF updated
                                 THEN {system_metrics, UpdatedMetrics(ReportedStatuses)}
                                 ELSE {system_metrics}
          /\ IF Caught(exc)
             THEN /\ mon_pc' = "except"
                  /\ UNCHANGED monitoring_thread
             ELSE /\ mon_pc' = "done"
                  /\ monitoring_thread' = "dead"
    /\ op' = "_monitoring_loop.raise"
    /\ MonitoringFrame

\* lines 421-423: the handler logs the error and sleeps 5 s
MonitoringHandled ==
    /\ monitoring_thread = "alive"
    /\ mon_pc = "except"
    /\ mon_pc' = "test"
    /\ op' = "_monitoring_loop.except"
    /\ UNCHANGED <<monitoring_thread, module_statuses, system_metrics>>
    /\ MonitoringFrame

\* the steps of the monitoring thread
MonitoringThread ==
    \/ MonitoringTest
    \/ MonitoringBody
    \/ MonitoringRaise
    \/ MonitoringHandled

\* ConsciousnessCore.cleanup (lines 599-612): the flag is cleared and the
\* thread joined for at most 2 s; the modules' cleanup() touches neither store
Cleanup ==
    /\ monitoring_enabled' = FALSE
    /\ op' = "cleanup"
    /\ result' = NoResult
    /\ UNCHANGED <<system_status, core_initialized, module_statuses,
                   monitoring_thread, mon_pc, system_metrics, module_initialized>>
    /\ UNCHANGED <<wsVars, tcVars, mgrVars, thrVars, fnVars, clock, calls,
                   admissions, stop_pending>>

\* a caller runs ConsciousnessCore.initialize()
MonitorInitialize ==
    /\ calls < MaxMonCalls
    /\ CoreInitialize

\* a caller runs ConsciousnessCore.resume_system(), which runs initialize
\* after an emergency stop
MonitorResume ==
    /\ system_status = "emergency_stop" => calls < MaxMonCalls
    /\ ResumeSystem

NextMonitor ==
    \/ MonitorInitialize
    \/ EmergencyStop
    \/ MonitorResume
    \/ PauseSystem
    \/ Cleanup
    \/ MonitoringTest
    \/ MonitoringBody
    \/ MonitoringRaise
    \/ MonitoringHandled

\* the monitoring thread is a started thread of a running interpreter: it is
\* scheduled, and its sleeps return
SpecMonitor == InitCore /\ [][NextMonitor]_vars /\ WF_vars(MonitoringThread)

-----------------------------------------------------------------------------
(* Properties of the monitoring thread, checked under SpecMonitor *)

\* C19: once monitoring_enabled is False (set by emergency_stop or cleanup)
\* and is not set again, the monitoring loop starts no further cycle, so that
\* at most the cycle in progress completes, and the thread terminates.
C19_StopIsCooperative ==
    /\ [][ (mon_pc # "body" /\ mon_pc' = "body") => monitoring_enabled ]_vars
    /\ <>[](~monitoring_enabled) => <>[](monitoring_thread # "alive")

\* C19 witness: after an emergency stop the monitoring thread found the flag
\* cleared at its loop test and has terminated.
C19_StoppedThreadTerminated ==
    /\ system_status = "emergency_stop"
    /\ ~monitoring_enabled
    /\ monitoring_thread = "dead"
    /\ op = "_monitoring_loop.test"

\* C20: when a step of a monitoring cycle raises, the loop does not terminate:
\* the thread stays alive, goes through its handler, and starts the next
\* cycle unless monitoring has been disabled.
C20_CycleFailureIsolated ==
    /\ [][ op' = "_monitoring_loop.raise"
              => /\ monitoring_thread' = "alive"
                 /\ mon_pc' = "except" ]_vars
    /\ (op = "_monitoring_loop.raise" /\ monitoring_thread = "alive")
          ~> (mon_pc = "body" \/ ~monitoring_enabled)

\* C20 witness: a cycle has raised, the handler has run, and the thread is
\* alive at its loop test with monitoring enabled.
C20_LoopSurvivedFailure ==
    /\ op = "_monitoring_loop.except"
    /\ monitoring_thread = "alive"
    /\ mon_pc = "test"
    /\ monitoring_enabled
    /\ system_status = "active"

-----------------------------------------------------------------------------
(* SpecQueries: a GlobalWorkspaceSystem whose caller admits items and reads  *)
(* the workspace back with get_workspace_state and get_conscious_contents,  *)
(* one call at a time.                                                       *)

\* add_content calls explored after the initial state of SpecQueries
MaxQueryAdmit == 2

\* a caller runs GlobalWorkspaceSystem.initialize() and it returns
WsInitializeCall ==
    /\ WsInitializeEffect
    /\ op' = "initialize"
    /\ result' = [value |-> TRUE]
    /\ UNCHANGED <<clock, calls, admissions, stop_pending>>
    /\ UNCHANGED <<tcVars, coreVars, mgrVars, thrVars, fnVars>>

\* len(data) of the payloads admitted in SpecQueries
QueryKeyCounts == {10}

\* a caller runs add_content(source, type, data, priority) and it returns
AddContentCall ==
    /\ calls < MaxQueryAdmit
    /\ \E t \in NextReadings, source_module \in Sources,
          nkeys \in QueryKeyCounts, priority \in Priorities :
          /\ AddContentEffect(t, source_module, "experience", nkeys, priority)
          /\ clock' = t
          /\ result' = [content_id |-> MsOf(t)]
    /\ op' = "add_content"
    /\ calls' = calls + 1
    /\ UNCHANGED stop_pending
    /\ UNCHANGED <<tcVars, coreVars, mgrVars, thrVars, fnVars>>

\* a caller runs get_workspace_state() and it returns
GetWorkspaceStateCall ==
    /\ GetWorkspaceStateEffect
    /\ op' = "get_workspace_state"
    /\ result' = NoResult
    /\ UNCHANGED <<producers, callers, orphaned>>
    /\ UNCHANGED <<clock, calls, admissions, stop_pending>>
    /\ UNCHANGED <<tcVars, coreVars, mgrVars, fnVars>>

\* a caller runs get_conscious_contents() and it returns the items under the
\* listed ids
GetConsciousContentsCall ==
    /\ result' = [contents |-> GetConsciousContentsOf(workspace_contents,
                                                     DictKeys(admissions))]
    /\ op' = "get_conscious_contents"
    /\ UNCHANGED <<wsVars, tcVars, coreVars, mgrVars, thrVars, fnVars>>
    /\ UNCHANGED <<clock, calls, admissions, stop_pending>>

NextQueries ==
    \/ WsInitializeCall
    \/ AddContentCall
    \/ GetWorkspaceStateCall
    \/ GetConsciousContentsCall

\* The workspace as constructed, or after one admission more than a snapshot
\* lists of the ordering
InitQueries ==
    /\ \E n \in {0, FocusShown + 1} :
          /\ WorkspaceIs(Prefilled(n))
          /\ clock = n * TicksPerMs
    /\ TemporalConstructed
    /\ CoreConstructed
    /\ ManagerConstructed
    /\ NoThreads
    /\ NothingApplied
    /\ op = "construct"
    /\ result = NoResult
    /\ calls = 0

SpecQueries == InitQueries /\ [][NextQueries]_vars

\* the sum of the coherence scores of the items of workspace_contents under ids
RECURSIVE CoherenceTotal(_)
CoherenceTotal(ids) ==
    IF ids = {} THEN 0
    ELSE LET id == CHOOSE x \in ids : TRUE
         IN  workspace_contents[id].coherence_score + CoherenceTotal(ids \ {id})

\* the items that are Conscious now
ConsciousNow == ContentsByAttention(workspace_contents, "conscious")

\* C21: when get_workspace_state has recomputed the metrics, coherence_level
\* is the mean coherence score of the items that are Conscious now, and it is
\* 0 when no item is Conscious now.
C21_CoherenceLevelIsConsciousMean ==
    (op = "get_workspace_state" /\ ws_initialized)
        => IF ConsciousNow = {}
           THEN consciousness_metrics.coherence_level.num = 0
           ELSE consciousness_metrics.coherence_level.num * Cardinality(ConsciousNow)
                    = CoherenceTotal(ConsciousNow)
                          * consciousness_metrics.coherence_level.den

\* C22: get_workspace_state and get_conscious_contents are read-only on the
\* workspace: a call of either changes neither the item map (no item added,
\* removed or altered), nor the focus ordering, nor the producer connection
\* map.
C22_QueriesLeaveWorkspaceAlone ==
    [][op' \in {"get_workspace_state", "get_conscious_contents"}
          => /\ workspace_contents' = workspace_contents
             /\ attention_focus' = attention_focus
             /\ module_connections' = module_connections]_vars

\* a snapshot was taken of an initialized workspace whose ordering is longer
\* than the slice the snapshot lists, and the metrics were recomputed
C22_SnapshotOfLongOrdering ==
    /\ op = "get_workspace_state"
    /\ "attention_focus" \in DOMAIN observed
    /\ Len(observed.attention_focus) = FocusShown
    /\ Len(attention_focus) > FocusShown
    /\ consciousness_metrics # InitialMetrics

\* how often x occurs in the sequence s
Occurrences(s, x) == Cardinality({i \in 1..Len(s) : s[i] = x})

\* C23: a snapshot groups the items by attention level as a partition: every
\* stored item is listed in exactly one of the four groups and once, the
\* group sizes add up to total_contents, and the focus list it reports holds
\* the first min(10, length) ids of the focus ordering, in order.
C23_SnapshotPartitionsItems ==
    (op = "get_workspace_state" /\ "total_contents" \in DOMAIN observed)
        => LET groups == observed.contents_by_attention
               shown  == observed.attention_focus
           IN  /\ DOMAIN groups = AttentionLevel
               /\ \A id \in DOMAIN workspace_contents :
                     /\ Occurrences(groups[workspace_contents[id].attention_level],
                                    id) = 1
                     /\ \A level \in AttentionLevel :
                           level # workspace_contents[id].attention_level
                               => Occurrences(groups[level], id) = 0
               /\ Len(groups["background"]) + Len(groups["peripheral"])
                      + Len(groups["focused"]) + Len(groups["conscious"])
                      = observed.total_contents
               /\ observed.total_contents = Cardinality(DOMAIN workspace_contents)
               /\ Len(shown) = IF Len(attention_focus) < 10
                               THEN Len(attention_focus) ELSE 10
               /\ \A i \in 1..Len(shown) : shown[i] = attention_focus[i]

\* a snapshot listed items in three groups and cut the ordering to ten ids
C23_SeveralGroupsAndCutList ==
    /\ op = "get_workspace_state"
    /\ "total_contents" \in DOMAIN observed
    /\ Cardinality({level \in AttentionLevel :
                        observed.contents_by_attention[level] # <<>>}) >= 3
    /\ Len(attention_focus) > 10
    /\ Len(observed.attention_focus) = 10

\* C24: get_conscious_contents returns exactly the items that are Conscious
\* now, each once, in the order in which they were stored in the workspace
\* (not in focus order and not by priority).
C24_ConsciousListedInInsertionOrder ==
    op = "get_conscious_contents"
        => LET listed == result.contents
           IN  /\ {listed[i] : i \in 1..Len(listed)} = ConsciousNow
               /\ Len(listed) = Cardinality(ConsciousNow)
               /\ \A i, j \in 1..Len(listed) :
                     i < j => AdmissionOf(listed[i]) < AdmissionOf(listed[j])

\* two Conscious items were returned, the later one of lower priority, while
\* the focus ordering holds them the other way round
C24_ListedAgainstFocusOrder ==
    /\ op = "get_conscious_contents"
    /\ Len(result.contents) = 2
    /\ Len(attention_focus) >= 2
    /\ attention_focus[1] = result.contents[2]
    /\ attention_focus[2] = result.contents[1]
    /\ workspace_contents[result.contents[2]].priority
           < workspace_contents[result.contents[1]].priority

\* C25: add_content does not modify the producer connection map: after an
\* admission module_connections is what it was before, for every producer,
\* and an unconfigured producer has not been added to it.
C25_AdmitLeavesConnectionsAlone ==
    [][op' = "add_content" => module_connections' = module_connections]_vars

\* an unconfigured producer's item was admitted to an initialized workspace
\* and scored with the default strength, and the map holds the configured
\* producers only
C25_UnconfiguredProducerAdmitted ==
    /\ op = "add_content"
    /\ ws_initialized
    /\ result.content_id \in DOMAIN workspace_contents
    /\ workspace_contents[result.content_id].source_module = "external"
    /\ workspace_contents[result.content_id].coherence_score = 750
    /\ DOMAIN module_connections = ConfiguredModules

-----------------------------------------------------------------------------
(* SpecTemporalPure: the methods of TemporalEvent called on their own.       *)
(* Timestamps are whole seconds; significance, memory_strength and the       *)
(* threshold are in thousandths; a temporal distance is an exact quotient.   *)

\* |x|
Abs(x) == IF x < 0 THEN -x ELSE x

\* the greatest common divisor of a >= 0 and b >= 0, not both 0
RECURSIVE Gcd(_, _)
Gcd(a, b) == IF b = 0 THEN a ELSE Gcd(b, a % b)

\* the quotient q in lowest terms
Lowest(q) ==
    LET g == Gcd(q.num, q.den) IN Quotient(q.num \div g, q.den \div g)

\* the values of TemporalScale (lines 38-44)
TemporalScales == {"immediate", "short_term", "medium_term", "long_term", "existential"}

\* scale_factors.get(self.temporal_scale, 3600.0) (lines 65-73), in seconds
ScaleFactor(temporal_scale) ==
    CASE temporal_scale = "immediate"   -> 1
      [] temporal_scale = "short_term"  -> 3600
      [] temporal_scale = "medium_term" -> 86400
      [] temporal_scale = "long_term"   -> 2592000
      [] temporal_scale = "existential" -> 31536000
      [] OTHER                          -> 3600

\* the distance without the absolute value of the difference
CalculateTemporalDistance_Signed(timestamp, reference_time, temporal_scale) ==
    MinOne(timestamp - reference_time, ScaleFactor(temporal_scale))

\* TemporalEvent.calculate_temporal_distance(reference_time) (lines 60-76) of
\* an event with the given timestamp and temporal_scale
CalculateTemporalDistance(timestamp, reference_time, temporal_scale) ==
    LET time_diff == Abs(timestamp - reference_time)
    IN  MinOne(time_diff, ScaleFactor(temporal_scale))

\* line 80: the distance is_temporally_relevant works with
DistanceOf(event, reference_time) ==
    Lowest(CalculateTemporalDistance(event.timestamp, reference_time,
                                     event.temporal_scale))

\* relevance that grows with the distance
IsTemporallyRelevant_TimesDistance(event, reference_time, relevance_threshold) ==
    LET temporal_distance == DistanceOf(event, reference_time)
    IN  event.significance * event.memory_strength
            * (temporal_distance.den + temporal_distance.num)
        > relevance_threshold * 1000 * temporal_distance.den

\* relevance that has only to reach the threshold
IsTemporallyRelevant_Inclusive(event, reference_time, relevance_threshold) ==
    LET temporal_distance == DistanceOf(event, reference_time)
    IN  event.significance * event.memory_strength * temporal_distance.den
        >= relevance_threshold * 1000
               * (temporal_distance.den + temporal_distance.num)

\* TemporalEvent.is_temporally_relevant(reference_time, relevance_threshold)
\* (lines 78-82): significance * memory_strength / (1 + distance) > threshold,
\* with both sides multiplied by the positive 1 + distance
IsTemporallyRelevant(event, reference_time, relevance_threshold) ==
    LET temporal_distance == DistanceOf(event, reference_time)
    IN  event.significance * event.memory_strength * temporal_distance.den
        > relevance_threshold * 1000
              * (temporal_distance.den + temporal_distance.num)

\* timestamps and reference times drawn for calculate_temporal_distance
PureTimes == {0, 1800, 3600, 40000000}
\* temporal_scale values drawn: the five members and a value that is none
PureScales == TemporalScales \cup {"seasonal"}
\* ages drawn for is_temporally_relevant, in quarters of the scale factor
PureQuarters == {0, 2, 4, 6}
\* significance, memory_strength and relevance_threshold values drawn
PureSignificances == {-500, 500, 1000}
PureStrengths == {500, 1000}
PureThresholds == {250, 500}
\* temporal_scale values drawn for is_temporally_relevant
RelevanceScales == {"short_term", "existential"}

\* a caller evaluates event.calculate_temporal_distance(reference_time)
CalculateTemporalDistanceCall ==
    /\ \E timestamp \in PureTimes, reference_time \in PureTimes,
          temporal_scale \in PureScales :
          applied' = Remember(
              [fn    |-> "calculate_temporal_distance",
               args  |-> [timestamp |-> timestamp, reference_time |-> reference_time,
                          temporal_scale |-> temporal_scale],
               value |-> [distance |-> CalculateTemporalDistance(
                                           timestamp, reference_time, temporal_scale)]])
    /\ UNCHANGED <<wsVars, tcVars, coreVars, mgrVars, obsVars, thrVars>>

\* a caller evaluates event.is_temporally_relevant(reference_time, threshold)
\* for an event stamped 0; the distance of line 80 is kept with the value
IsTemporallyRelevantCall ==
    /\ \E significance \in PureSignificances, memory_strength \in PureStrengths,
          temporal_scale \in RelevanceScales, quarters \in PureQuarters,
          relevance_threshold \in PureThresholds :
          LET event == [timestamp       |-> 0,
                        significance    |-> significance,
                        memory_strength |-> memory_strength,
                        temporal_scale  |-> temporal_scale]
              reference_time == (quarters * ScaleFactor(temporal_scale)) \div 4
          IN  applied' = Remember(
                  [fn    |-> "is_temporally_relevant",
                   args  |-> [event |-> event, reference_time |-> reference_time,
                              relevance_threshold |-> relevance_threshold],
                   value |-> [relevant |-> IsTemporallyRelevant(
                                               event, reference_time,
                                               relevance_threshold),
                              temporal_distance |->
                                  DistanceOf(event, reference_time)]])
    /\ UNCHANGED <<wsVars, tcVars, coreVars, mgrVars, obsVars, thrVars>>

NextTemporalPure ==
    \/ CalculateTemporalDistanceCall
    \/ IsTemporallyRelevantCall

SpecTemporalPure == InitPure /\ [][NextTemporalPure]_vars

\* the applications of calculate_temporal_distance kept in applied
Measured == {i \in 1..Len(applied) : applied[i].fn = "calculate_temporal_distance"}

\* the divisor the specification gives for a scale
DivisorOf(scale) ==
    CASE scale = "immediate"   -> 1
      [] scale = "short_term"  -> 3600
      [] scale = "medium_term" -> 24 * 3600
      [] scale = "long_term"   -> 30 * 24 * 3600
      [] scale = "existential" -> 365 * 24 * 3600

\* C26: the temporal distance of an event from a reference time is
\* min(1, |reference - timestamp| / divisor(scale)) with divisors of 1 s, 1 h,
\* 1 day, 30 days and 365 days for Immediate, ShortTerm, MediumTerm, LongTerm
\* and Existential; it lies in [0, 1], is the same for a reference as far
\* before the event as after it, and is 0.5 for a ShortTerm event 1800 s away.
C26_DistanceIsScaledAge ==
    /\ \A i \in Measured :
          LET a == applied[i].args
              d == applied[i].value.distance
              gap == IF a.reference_time >= a.timestamp
                     THEN a.reference_time - a.timestamp
                     ELSE a.timestamp - a.reference_time
          IN  /\ d.den > 0 /\ 0 <= d.num /\ d.num <= d.den
              /\ a.temporal_scale \in TemporalScales
                    => IF gap >= DivisorOf(a.temporal_scale)
                       THEN d.num = d.den
                       ELSE /\ d.den = DivisorOf(a.temporal_scale)
                            /\ d.num = gap
              /\ (a.temporal_scale = "short_term" /\ gap = 1800)
                    => 2 * d.num = d.den
    /\ \A i, j \in Measured :
          (/\ applied[i].args.temporal_scale = applied[j].args.temporal_scale
           /\ applied[i].args.timestamp = applied[j].args.reference_time
           /\ applied[i].args.reference_time = applied[j].args.timestamp)
              => applied[i].value.distance = applied[j].value.distance

\* a ShortTerm event was measured 1800 s before and 1800 s after its timestamp
C26_HalfHourBeforeAndAfter ==
    /\ Len(applied) = 2
    /\ Measured = {1, 2}
    /\ applied[1].args = [timestamp |-> 1800, reference_time |-> 0,
                          temporal_scale |-> "short_term"]
    /\ applied[2].args = [timestamp |-> 1800, reference_time |-> 3600,
                          temporal_scale |-> "short_term"]
    /\ applied[1].value.distance = Quotient(1800, 3600)

\* the applications of is_temporally_relevant kept in applied
Judged == {i \in 1..Len(applied) : applied[i].fn = "is_temporally_relevant"}

\* the temporal distance of application i is at most that of application j
NoFurther(i, j) ==
    applied[i].value.temporal_distance.num * applied[j].value.temporal_distance.den
        <= applied[j].value.temporal_distance.num
               * applied[i].value.temporal_distance.den

\* applications i and j agree in every argument the claim holds fixed except
\* the one named by varied
SameExcept(i, j, varied) ==
    LET a == applied[i].args
        b == applied[j].args
    IN  /\ a.relevance_threshold = b.relevance_threshold
        /\ varied # "significance" => a.event.significance = b.event.significance
        /\ varied # "memory_strength"
               => a.event.memory_strength = b.event.memory_strength
        /\ varied # "temporal_distance"
               => applied[i].value.temporal_distance
                      = applied[j].value.temporal_distance

\* C27: an event is relevant iff significance * memoryStrength /
\* (1 + temporalDistance) exceeds the threshold (0.5 by default), and the
\* answer is monotone: with the other arguments fixed, a larger temporal
\* distance never makes a not-relevant event relevant, and a larger
\* significance or a larger memory strength never makes a relevant event
\* not relevant.
C27_RelevanceMonotone ==
    /\ \A i \in Judged :
          LET e == applied[i].args.event
              d == applied[i].value.temporal_distance
          IN  applied[i].value.relevant
                  <=> (e.significance * e.memory_strength * d.den
                           - applied[i].args.relevance_threshold * 1000
                                 * (d.den + d.num) > 0)
    /\ \A i, j \in Judged :
          /\ (SameExcept(i, j, "temporal_distance") /\ NoFurther(i, j))
                => (applied[j].value.relevant => applied[i].value.relevant)
          /\ (/\ SameExcept(i, j, "significance")
              /\ applied[i].args.event.significance
                     <= applied[j].args.event.significance)
                => (applied[i].value.relevant => applied[j].value.relevant)
          /\ (/\ SameExcept(i, j, "memory_strength")
              /\ applied[i].args.event.memory_strength
                     <= applied[j].args.event.memory_strength)
                => (applied[i].value.relevant => applied[j].value.relevant)

\* the same event was judged under the default threshold at distance 0, where
\* it is relevant, and at distance 1, where it is not
C27_RelevanceLostWithDistance ==
    /\ Len(applied) = 2
    /\ Judged = {1, 2}
    /\ SameExcept(1, 2, "temporal_distance")
    /\ applied[1].args.relevance_threshold = 500
    /\ applied[1].value.temporal_distance.num = 0
    /\ applied[2].value.temporal_distance = Quotient(1, 1)
    /\ applied[1].value.relevant
    /\ ~applied[2].value.relevant

\* the age of the event of application i at its reference time, in seconds
AgeAt(i) == applied[i].args.reference_time - applied[i].args.event.timestamp

\* C38: relevance is never regained as time passes: for an event with
\* significance in [0, 1] and a fixed threshold, if is_temporally_relevant is
\* false at a reference time at or after the event's timestamp, it is false at
\* every later reference time; and with the default threshold 0.5 an event is
\* not relevant once its age has reached its scale divisor.
C38_RelevanceNeverRegained ==
    /\ \A i, j \in Judged :
          (/\ applied[i].args.event = applied[j].args.event
           /\ applied[i].args.relevance_threshold = applied[j].args.relevance_threshold
           /\ applied[i].args.event.significance \in 0..1000
           /\ 0 <= AgeAt(i)
           /\ AgeAt(i) < AgeAt(j)
           /\ ~applied[i].value.relevant)
              => ~applied[j].value.relevant
    /\ \A i \in Judged :
          (/\ applied[i].args.relevance_threshold = 500
           /\ applied[i].args.event.significance \in 0..1000
           /\ AgeAt(i) >= DivisorOf(applied[i].args.event.temporal_scale))
              => ~applied[i].value.relevant

\* C38 witness: an event of full significance was judged under the default
\* threshold at the age of its scale divisor and again half a divisor later,
\* and at an earlier age it would have been relevant
C38_JudgedAtAndPastTheDivisor ==
    /\ Len(applied) = 2
    /\ Judged = {1, 2}
    /\ applied[1].args.event = applied[2].args.event
    /\ applied[1].args.event.significance = 1000
    /\ applied[1].args.event.memory_strength = 1000
    /\ applied[1].args.relevance_threshold = 500
    /\ applied[2].args.relevance_threshold = 500
    /\ AgeAt(1) = DivisorOf(applied[1].args.event.temporal_scale)
    /\ AgeAt(2) > AgeAt(1)
    /\ ~applied[1].value.relevant
    /\ ~applied[2].value.relevant
    /\ IsTemporallyRelevant(applied[1].args.event, AgeAt(1) \div 2, 500)

-----------------------------------------------------------------------------
(* SpecTemporal: a TemporalConsciousnessSystem whose caller initializes it,  *)
(* records experiences and reads the state back, one call at a time.  The    *)
(* entries of temporal_metrics other than events_processed and the           *)
(* present_moment_awareness, which no call reads back into the store, are    *)
(* not part of the state.                                                    *)

\* calls explored after the initial state of SpecTemporal
MaxTemporalCalls == 2

\* events in the largest store SpecTemporal starts from
MaxStored == 1000

\* get_temporal_consciousness_state: how many events it lists (line 187)
RecentShown == 20

\* The store after n process_temporal_experience calls, one per millisecond,
\* each with data {} and the default significance 0.5: what n applications of
\* RecordTemporalTo at the readings TicksPerMs, 2 * TicksPerMs, ... yield
StoreAfter(n) ==
    [events    |-> [id \in 1..n |->
                       [event_id        |-> id,
                        timestamp       |-> id * TicksPerMs,
                        event_type      |-> "experience",
                        significance    |-> 500,
                        memory_strength |-> 1000,
                        temporal_scale  |-> DetermineTemporalScale("experience",
                                                                   NoScale)]],
     processed |-> n]

\* temporal_events.values() at a time when the clock has read now: the dict
\* yields the keys in the order they were first stored, which is ascending,
\* the ids being the milliseconds of a clock that does not go back
EventValues(events, now) ==
    LET keys == SelectSeq([i \in 1..(MsOf(now) + 1) |-> i - 1],
                          LAMBDA id : id \in DOMAIN events)
    IN  [i \in 1..Len(keys) |-> events[keys[i]]]

\* the sequence s read from its end
Reversed(s) == [i \in 1..Len(s) |-> s[Len(s) + 1 - i]]

\* the twenty events stored first among those sorted oldest first
RecentEvents_OldestFirst(events, now) ==
    LET sorted == SortSeq(EventValues(events, now),
                          LAMBDA a, b : a.timestamp < b.timestamp)
    IN  SubSeq(sorted, 1, Min(RecentShown, Len(sorted)))

\* sorted(temporal_events.values(), key=timestamp, reverse=True)[:20] (lines
\* 183-187).  No two stored events have the same timestamp, so the sorted
\* list is the same whatever order the values are handed to the sort in;
\* they are handed over last stored first
RecentEvents(events, now) ==
    LET sorted == SortSeq(Reversed(EventValues(events, now)),
                          LAMBDA a, b : a.timestamp > b.timestamp)
    IN  SubSeq(sorted, 1, Min(RecentShown, Len(sorted)))

\* the dict get_temporal_consciousness_state returns (lines 176-207), without
\* the entries read off the wall clock
TemporalConsciousnessState(initialized, events, processed, now) ==
    IF ~initialized
    THEN [error |-> "Temporal consciousness system not initialized"]
    ELSE LET recent_events == RecentEvents(events, now)
         IN  [recent_events |->
                  [i \in 1..Len(recent_events) |->
                      [event_id       |-> recent_events[i].event_id,
                       type           |-> recent_events[i].event_type,
                       significance   |-> recent_events[i].significance,
                       temporal_scale |-> recent_events[i].temporal_scale]],
              events_processed |-> processed]

\* experience types and significances the caller of SpecTemporal passes
TemporalTypes == {"experience", "decision"}
TemporalSignificances == {900}

\* a caller runs TemporalConsciousnessSystem.initialize() and it returns
TemporalInitializeCall ==
    /\ calls < MaxTemporalCalls
    /\ \E t1 \in After(clock) : \E t2 \in After(t1) : \E t3 \in After(t2) :
          /\ TemporalInitializeEffect(t1, t2, t3)
          /\ clock' = t3
    /\ op' = "initialize"
    /\ result' = [value |-> TRUE]
    /\ calls' = calls + 1
    /\ UNCHANGED <<wsVars, coreVars, mgrVars, thrVars, fnVars, admissions,
                   stop_pending>>

\* a caller runs process_temporal_experience(experience_data, significance)
\* and it returns the id
ProcessTemporalExperienceCall ==
    /\ calls < MaxTemporalCalls
    /\ \E t \in NextReadings, event_type \in TemporalTypes,
          significance \in TemporalSignificances :
          /\ RecordTemporalEffect(t, event_type, NoScale, significance)
          /\ clock' = t
          /\ result' = [event_id |-> MsOf(t)]
    /\ op' = "process_temporal_experience"
    /\ calls' = calls + 1
    /\ UNCHANGED <<wsVars, coreVars, mgrVars, thrVars, fnVars, admissions,
                   stop_pending>>

\* a caller runs get_temporal_consciousness_state() and it returns
GetTemporalConsciousnessStateCall ==
    /\ result' = TemporalConsciousnessState(tc_initialized, temporal_events,
                                            events_processed, clock)
    /\ op' = "get_temporal_consciousness_state"
    /\ UNCHANGED <<wsVars, tcVars, coreVars, mgrVars, thrVars, fnVars>>
    /\ UNCHANGED <<clock, calls, admissions, stop_pending>>

\* TemporalConsciousnessSystem.__init__, or the store after MaxStored records
InitTemporal ==
    /\ \E n \in {0, MaxStored} :
          /\ temporal_events = StoreAfter(n).events
          /\ events_processed = StoreAfter(n).processed
          /\ clock = n * TicksPerMs
    /\ tc_initialized = FALSE
    /\ WorkspaceIs(EmptyWorkspace)
    /\ CoreConstructed
    /\ ManagerConstructed
    /\ NoThreads
    /\ NothingApplied
    /\ op = "construct"
    /\ result = NoResult
    /\ calls = 0

NextTemporal ==
    \/ TemporalInitializeCall
    \/ ProcessTemporalExperienceCall
    \/ GetTemporalConsciousnessStateCall

SpecTemporal == InitTemporal /\ [][NextTemporal]_vars

\* the ids a state query listed, in the order listed
ListedIds == [i \in 1..Len(result.recent_events) |-> result.recent_events[i].event_id]

\* C30: the recent-events view of a state query lists the most recent events
\* by timestamp, newest first, at most 20 of them: the listed timestamps never
\* increase along the list, every listed event is stored and listed once, and
\* no stored event that is left out is later than a listed one.
C30_RecentEventsNewestFirst ==
    (op = "get_temporal_consciousness_state" /\ "recent_events" \in DOMAIN result)
        => LET stamp(id) == temporal_events[id].timestamp
               listed == {ListedIds[i] : i \in 1..Len(ListedIds)}
           IN  /\ Len(ListedIds) <= 20
               /\ Len(ListedIds) = IF Cardinality(DOMAIN temporal_events) < 20
                                   THEN Cardinality(DOMAIN temporal_events) ELSE 20
               /\ listed \subseteq DOMAIN temporal_events
               /\ Cardinality(listed) = Len(ListedIds)
               /\ \A i \in 1..(Len(ListedIds) - 1) :
                     stamp(ListedIds[i]) >= stamp(ListedIds[i + 1])
               /\ \A omitted \in DOMAIN temporal_events \ listed :
                     \A id \in listed : stamp(omitted) <= stamp(id)

\* twenty events were listed out of more than twenty, the first of them
\* recorded after the foundational events of this run
C30_TwentyOfManyListed ==
    /\ op = "get_temporal_consciousness_state"
    /\ "recent_events" \in DOMAIN result
    /\ Len(result.recent_events) = 20
    /\ Cardinality(DOMAIN temporal_events) > 20
    /\ result.recent_events[1].type \in TemporalTypes
    /\ result.recent_events[2].type = "identity_formation_start"
    /\ result.recent_events[5].type = "experience"

\* C28: every temporal event is created with memory strength 1.0, and no
\* operation (initialize, record, state query) raises the memory strength of
\* an event above the value it had before.
C28_StrengthFullAtCreationNeverRises ==
    [][\A id \in DOMAIN temporal_events' :
          IF /\ id \in DOMAIN temporal_events
             /\ temporal_events'[id].timestamp = temporal_events[id].timestamp
          THEN temporal_events'[id].memory_strength
                   <= temporal_events[id].memory_strength
          ELSE temporal_events'[id].memory_strength = 1000]_vars

\* the store was initialized, an experience was recorded and the state was
\* queried, and the recorded and the foundational events are at full strength
C28_RecordedThenQueried ==
    /\ op = "get_temporal_consciousness_state"
    /\ tc_initialized
    /\ \E id \in DOMAIN temporal_events :
          /\ temporal_events[id].event_type = "decision"
          /\ temporal_events[id].memory_strength = 1000
    /\ \E id \in DOMAIN temporal_events :
          /\ temporal_events[id].event_type = "first_awareness"
          /\ temporal_events[id].memory_strength = 1000

\* C29: a recorded event leaves the temporal store only through the
\* retention cap, which keeps the store at 1000 events at most and removes
\* the oldest first: the store never holds more than 1000 events, and an
\* event that leaves it does so from a full store and is older than every
\* event kept.
C29_RetentionCapOldestFirst ==
    /\ [](Cardinality(DOMAIN temporal_events) <= 1000)
    /\ [][\A id \in DOMAIN temporal_events \ DOMAIN temporal_events' :
             /\ Cardinality(DOMAIN temporal_events') = 1000
             /\ \A kept \in DOMAIN temporal_events' :
                   temporal_events[id].timestamp
                       < temporal_events'[kept].timestamp]_vars

-----------------------------------------------------------------------------
(* Referential integrity of the ordering, checked under Spec *)

\* C31: in every state reached by sequential admissions, every id of
\* attention_focus is a key of workspace_contents and no id occurs twice in
\* attention_focus.
C31_FocusRefersToStoredItemsOnce ==
    /\ \A i \in 1..Len(attention_focus) :
          attention_focus[i] \in DOMAIN workspace_contents
    /\ \A i, j \in 1..Len(attention_focus) :
          i # j => attention_focus[i] # attention_focus[j]

\* C31 witness: an id has been admitted twice (two calls within one
\* millisecond), the ordering lists it, and other ids besides.
C31_ReadmittedIdListed ==
    /\ calls > 0
    /\ \E i, j \in 1..Len(admissions) :
          /\ i < j
          /\ admissions[i].id = admissions[j].id
          /\ \E k \in 1..Len(attention_focus) : attention_focus[k] = admissions[j].id
    /\ Len(attention_focus) >= 2

-----------------------------------------------------------------------------
(* The stopped state and the monitoring thread, checked under SpecMonitor *)

\* the state emergency_stop leaves: the status and every module status
ReportedStopped ==
    /\ system_status = "emergency_stop"
    /\ \A m \in DOMAIN module_statuses : module_statuses[m] = "inactive"

\* C36: after emergency_stop has returned True, system_status is
\* 'emergency_stop' and every module status is 'inactive', and both remain so
\* until resume_system or pause_system (or initialize) is called, even if a
\* monitoring cycle was in progress when emergency_stop ran.
C36_StoppedStateStays ==
    [][ /\ (op' = "emergency_stop" /\ result' = [value |-> TRUE]) => ReportedStopped'
        /\ (ReportedStopped
               /\ op' \notin {"resume_system", "pause_system", "initialize"})
              => ReportedStopped' ]_vars

-----------------------------------------------------------------------------
(* SpecCallers: a ConsciousnessCore called from several threads at once (the *)
(* request handlers of socketio_events.py).  The core holds no lock, so      *)
(* another thread can run between any two statements of initialize,          *)
(* resume_system and _start_monitoring; the calls are taken statement by     *)
(* statement from the point where they test and start the monitoring thread. *)

\* initialize and resume_system calls explored after construction in
\* SpecCallers
MaxCallerCalls == 2

\* the threads that call the core
Callers == {"handler_1", "handler_2"}

\* a thread that is not inside a call of the core
Outside == [pc |-> "idle", call |-> "none", initializing |-> FALSE]

\* the threads executing _monitoring_loop
LoopThreads == (IF monitoring_thread = "alive" THEN 1 ELSE 0) + Len(orphaned)

\* thread c moves on inside its call
Goes(c, pc) == callers' = [callers EXCEPT ![c].pc = pc]

\* the call of thread c returns value
Returns(c, value) ==
    /\ callers' = [callers EXCEPT ![c] = Outside]
    /\ op' = callers[c].call
    /\ result' = [value |-> value]

\* what a step of a calling thread leaves alone besides the core
CallerFrame == UNCHANGED <<mgrVars, fnVars, producers, observed, admissions>>

\* resume_system line 342 in thread c: the status is tested; after an
\* emergency stop the call goes on in initialize (line 344)
CallerResume(c) ==
    /\ callers[c].pc = "idle"
    /\ calls < MaxCallerCalls
    /\ callers' = [callers EXCEPT
                     ![c] = [pc   |-> IF system_status = "emergency_stop"
                                      THEN "initialize" ELSE "resume.set",
                             call |-> "resume_system",
                             initializing |-> system_status = "emergency_stop"]]
    /\ calls' = calls + 1
    /\ UNCHANGED <<wsVars, tcVars, coreVars, orphaned, clock, op, result, stop_pending>>
    /\ CallerFrame

\* thread c calls initialize()
CallerInitialize(c) ==
    /\ callers[c].pc = "idle"
    /\ calls < MaxCallerCalls
    /\ callers' = [callers EXCEPT
                     ![c] = [pc |-> "initialize", call |-> "initialize",
                             initializing |-> TRUE]]
    /\ calls' = calls + 1
    /\ UNCHANGED <<wsVars, tcVars, coreVars, orphaned, clock, op, result, stop_pending>>
    /\ CallerFrame

\* initialize lines 105-166 in thread c: every module's initialize() runs and
\* returns True, the module statuses and the metrics are created and the
\* status is 'active'
CallerInitializeModules(c) ==
    /\ callers[c].pc = "initialize"
    /\ \E t1 \in After(clock) : \E t2 \in After(t1) : \E t3 \in After(t2) :
          /\ TemporalInitializeEffect(t1, t2, t3)
          /\ clock' = t3
    /\ WsInitializeEffect
    /\ module_statuses' = [m \in CoreModules |-> "active"]
    /\ module_initialized' = [m \in StatusReporters |-> TRUE]
    /\ system_status' = "active"
    /\ system_metrics' = [modules_online |-> Cardinality(CoreModules),
                          total_modules  |-> Cardinality(CoreModules)]
    /\ stop_pending' = FALSE
    /\ Goes(c, "start.check")
    /\ UNCHANGED <<core_initialized, monitoring_enabled, monitoring_thread, mon_pc,
                   orphaned, calls, op, result>>
    /\ CallerFrame

\* resume_system lines 346-347 in thread c
CallerResumeSet(c) ==
    /\ callers[c].pc = "resume.set"
    /\ system_status' = "active"
    /\ monitoring_enabled' = TRUE
    /\ Goes(c, "resume.check")
    /\ UNCHANGED <<core_initialized, module_statuses, monitoring_thread, mon_pc,
                   system_metrics, module_initialized>>
    /\ UNCHANGED <<wsVars, tcVars, orphaned, clock, calls, op, result, stop_pending>>
    /\ CallerFrame

\* resume_system line 350 in thread c: _start_monitoring is called when there
\* is no monitoring thread or it is not alive; otherwise the call returns True
CallerResumeCheck(c) ==
    /\ callers[c].pc = "resume.check"
    /\ IF monitoring_thread # "alive"
       THEN /\ Goes(c, "start.check")
            /\ UNCHANGED <<op, result>>
       ELSE Returns(c, TRUE)
    /\ UNCHANGED <<wsVars, tcVars, coreVars, orphaned, clock, calls, stop_pending>>
    /\ CallerFrame

\* _start_monitoring lines 395-396 in thread c: return when the thread is alive
CallerStartCheck(c) ==
    /\ callers[c].pc = "start.check"
    /\ Goes(c, IF monitoring_thread = "alive" THEN "started" ELSE "start.create")
    /\ UNCHANGED <<wsVars, tcVars, coreVars, orphaned, clock, calls, op, result,
                   stop_pending>>
    /\ CallerFrame

\* _start_monitoring lines 398-399 in thread c: the flag is set and a new
\* Thread object, not yet started, replaces self.monitoring_thread; a thread
\* that was started since the test of line 395 keeps running unreferenced
CallerStartCreate(c) ==
    /\ callers[c].pc = "start.create"
    /\ monitoring_enabled' = TRUE
    /\ orphaned' = IF monitoring_thread = "alive"
                   THEN Append(orphaned, mon_pc) ELSE orphaned
    /\ monitoring_thread' = "created"
    /\ mon_pc' = "none"
    /\ Goes(c, "start.start")
    /\ UNCHANGED <<system_status, core_initialized, module_statuses, system_metrics,
                   module_initialized>>
    /\ UNCHANGED <<wsVars, tcVars, clock, calls, op, result, stop_pending>>
    /\ CallerFrame

\* _start_monitoring line 400 in thread c: self.monitoring_thread.start().
\* Thread.start() raises RuntimeError on a thread that was started before
\* (by the other caller); initialize catches it on line 181, sets the status
\* 'error' and returns False, resume_system catches it on line 362 and
\* returns False.
CallerStartStart(c) ==
    /\ callers[c].pc = "start.start"
    /\ IF monitoring_thread = "created"
       THEN /\ monitoring_thread' = "alive"
            /\ mon_pc' = "test"
            /\ Goes(c, "started")
            /\ UNCHANGED <<system_status, op, result>>
       ELSE /\ system_status' = IF callers[c].initializing THEN "error"
                                ELSE system_status
            /\ Returns(c, FALSE)
            /\ UNCHANGED <<monitoring_thread, mon_pc>>
    /\ UNCHANGED <<core_initialized, module_statuses, monitoring_enabled,
                   system_metrics, module_initialized>>
    /\ UNCHANGED <<wsVars, tcVars, orphaned, clock, calls, stop_pending>>
    /\ CallerFrame

\* _start_monitoring has returned in thread c: initialize sets initialized
\* (line 177) and returns True, resume_system returns True
CallerReturn(c) ==
    /\ callers[c].pc = "started"
    /\ core_initialized' = (core_initialized \/ callers[c].initializing)
    /\ Returns(c, TRUE)
    /\ UNCHANGED <<system_status, module_statuses, monitoring_enabled,
                   monitoring_thread, mon_pc, system_metrics, module_initialized>>
    /\ UNCHANGED <<wsVars, tcVars, orphaned, clock, calls, stop_pending>>
    /\ CallerFrame

\* line 405 in the i-th unreferenced monitoring thread: it enters the body
\* or returns
OrphanTest(i) ==
    /\ orphaned[i] = "test"
    /\ orphaned' = IF MonitoringContinues
                   THEN [orphaned EXCEPT ![i] = "body"]
                   ELSE SubSeq(orphaned, 1, i - 1) \o SubSeq(orphaned, i + 1, Len(orphaned))
    /\ op' = "_monitoring_loop.test"
    /\ UNCHANGED <<wsVars, tcVars, coreVars, mgrVars, fnVars, producers, observed,
                   callers, clock, result, calls, admissions, stop_pending>>

\* lines 407-419 in the i-th unreferenced monitoring thread
OrphanBody(i) ==
    /\ orphaned[i] = "body"
    /\ orphaned' = [orphaned EXCEPT ![i] = "test"]
    /\ module_statuses' = ReportedStatuses
    /\ system_metrics' = UpdatedMetrics(ReportedStatuses)
    /\ op' = "_monitoring_loop.body"
    /\ UNCHANGED <<system_status, core_initialized, monitoring_enabled,
                   monitoring_thread, mon_pc, module_initialized>>
    /\ UNCHANGED <<wsVars, tcVars, mgrVars, fnVars, producers, observed,
                   callers, clock, result, calls, admissions, stop_pending>>

\* ConsciousnessCore.__init__, no thread inside a call
InitCallers ==
    /\ WorkspaceIs(EmptyWorkspace)
    /\ TemporalConstructed
    /\ CoreConstructed
    /\ ManagerConstructed
    /\ producers = EmptyMap
    /\ observed = NoResult
    /\ callers = [c \in Callers |-> Outside]
    /\ orphaned = <<>>
    /\ NothingApplied
    /\ clock = 0
    /\ op = "construct"
    /\ result = NoResult
    /\ calls = 0

NextCallers ==
    \/ \E c \in Callers : CallerResume(c)
    \/ \E c \in Callers : CallerInitialize(c)
    \/ \E c \in Callers : CallerInitializeModules(c)
    \/ \E c \in Callers : CallerResumeSet(c)
    \/ \E c \in Callers : CallerResumeCheck(c)
    \/ \E c \in Callers : CallerStartCheck(c)
    \/ \E c \in Callers : CallerStartCreate(c)
    \/ \E c \in Callers : CallerStartStart(c)
    \/ \E c \in Callers : CallerReturn(c)
    \/ EmergencyStop
    \/ PauseSystem
    \/ MonitoringTest
    \/ MonitoringBody
    \/ \E i \in 1..Len(orphaned) : OrphanTest(i)
    \/ \E i \in 1..Len(orphaned) : OrphanBody(i)

SpecCallers == InitCallers /\ [][NextCallers]_vars

\* C35: at most one monitoring thread executes _monitoring_loop at any time,
\* for any interleaving of initialize, resume_system, pause_system and
\* emergency_stop calls issued by concurrent callers.
C35_AtMostOneMonitoringThread == LoopThreads <= 1

-----------------------------------------------------------------------------
(* The counter of the temporal store, checked under SpecTemporal *)

\* the types of the events _create_foundational_events records (lines 221-240)
FoundationalTypes == {"initialization", "first_awareness", "identity_formation_start"}

\* C37: events_processed always equals the number of stored events, for any
\* wall-clock readings at the record calls; right after the first initialize
\* the store holds exactly the three foundational events.
C37_CounterIsNumberStored ==
    /\ events_processed = Cardinality(DOMAIN temporal_events)
    /\ (op = "initialize" /\ events_processed = 3)
          => /\ Cardinality(DOMAIN temporal_events) = 3
             /\ {temporal_events[id].event_type : id \in DOMAIN temporal_events}
                   = FoundationalTypes

-----------------------------------------------------------------------------
(* SpecInitialize: a ConsciousnessCore whose modules can fail to initialise *)

\* initialize runs explored after construction in SpecInitialize
MaxInitCalls == 2

\* the sets of modules whose initialize() returns True that the model draws:
\* all, none, all but one and one alone
InitializeOutcomes ==
    {CoreModules, {}, CoreModules \ {"creative_intelligence"}, {"global_workspace"}}

\* a caller runs ConsciousnessCore.initialize() and it returns
CoreInitializeAny ==
    /\ calls < MaxInitCalls
    /\ \E succeeded \in InitializeOutcomes : CoreInitializeOutcome(succeeded)
    /\ op' = "initialize"

\* a caller runs resume_system(), which runs initialize after an emergency stop
InitResume ==
    /\ system_status = "emergency_stop" => calls < MaxInitCalls
    /\ ResumeSystem

NextInitialize ==
    \/ CoreInitializeAny
    \/ EmergencyStop
    \/ InitResume
    \/ PauseSystem
    \/ MonitoringCycle
    \/ MonitoringExit

SpecInitialize == InitCore /\ [][NextInitialize]_vars

\* the modules whose status the last initialize created as 'active' (line 113)
StatusActive == {m \in DOMAIN module_statuses : module_statuses[m] = "active"}

\* C39: initialize ends with system_status 'error' and returns False exactly
\* when no module initialised successfully; when at least one module
\* succeeded it ends with system_status 'active', initialized True and
\* modules_online equal to the number of successful modules, never above
\* total_modules.
C39_InitializeOutcome ==
    op = "initialize"
        => /\ (system_status = "error" /\ result = [value |-> FALSE])
                 <=> StatusActive = {}
           /\ StatusActive # {}
                 => /\ system_status = "active"
                    /\ result = [value |-> TRUE]
                    /\ core_initialized
                    /\ system_metrics.modules_online = Cardinality(StatusActive)
                    /\ system_metrics.modules_online <= system_metrics.total_modules

\* C39 witness: an initialize in which some modules failed has returned True,
\* after an earlier initialize in which every module failed
C39_PartialAfterTotalFailure ==
    /\ op = "initialize"
    /\ calls = 2
    /\ result = [value |-> TRUE]
    /\ system_status = "active"
    /\ system_metrics.modules_online = 6
    /\ system_metrics.total_modules = 7
    /\ module_statuses["creative_intelligence"] = "error"
    /\ ~module_initialized["creative_intelligence"]

====
